---- MODULE Spec2Model ----
(***************************************************************************)
(* Payment settlement and license activation of src/app.py:                *)
(*   - the ECPay CheckMacValue codec (gen_check_mac_value,                  *)
(*     verify_ecpay_signature),                                            *)
(*   - the gateway notification handlers (ecpay_webhook, ecpay_return_url) *)
(*     and the refund coordinator (process_ecpay_refund),                  *)
(*   - the activation-link redemption (verify_license_token).              *)
(* A Python str is a sequence of one-character strings.  Each subsystem    *)
(* has its own specifications (SpecSig, SpecRedeem, SpecPay, SpecOne)      *)
(* over the same variables and leaves the other subsystems' variables      *)
(* unchanged.                                                              *)
(***************************************************************************)
EXTENDS Integers, Sequences, FiniteSets, Bags, TLC

VARIABLES sigParams, sigPhase, sigMac, sigRecv, sigIdx, sigOk

\* The deployment: the datastore backend, and the clock.
VARIABLES use_postgresql, tz_offset, now

\* The datastore: the committed tables, and the open SQLite write transaction.
VARIABLES db, tx

\* The deployment's settings: ENVIRONMENT, ECPAY_INVOICE_ENABLED.
VARIABLES config

\* The requests in flight, and what the handlers did so far.
VARIABLES rq, rlog

sigVars == <<sigParams, sigPhase, sigMac, sigRecv, sigIdx, sigOk>>

envVars == <<use_postgresql, tz_offset, now, config>>

dbVars == <<db, tx>>

redeemVars == <<rq, rlog>>

nonSigVars == <<envVars, dbVars, redeemVars>>

vars == <<sigVars, envVars, dbVars, redeemVars>>

(***************************************************************************)
(* Characters and strings                                                  *)
(***************************************************************************)

\* The printable ASCII characters, code points 32..126, in code-point order
\* (code point 96 is spelled GRAVE).
Printable ==
    << " ", "!", "\"", "#", "$", "%", "&", "'", "(", ")", "*", "+", ",", "-", ".", "/",
       "0", "1", "2", "3", "4", "5", "6", "7", "8", "9", ":", ";", "<", "=", ">", "?",
       "@", "A", "B", "C", "D", "E", "F", "G", "H", "I", "J", "K", "L", "M", "N", "O",
       "P", "Q", "R", "S", "T", "U", "V", "W", "X", "Y", "Z", "[", "\\", "]", "^", "_",
       "GRAVE", "a", "b", "c", "d", "e", "f", "g", "h", "i", "j", "k", "l", "m", "n", "o",
       "p", "q", "r", "s", "t", "u", "v", "w", "x", "y", "z", "{", "|", "}", "~" >>

\* ord(c): the code point of a printable character.
Ord(c) == 31 + (CHOOSE i \in 1..Len(Printable) : Printable[i] = c)

\* chr(n) for a printable code point.
Chr(n) == Printable[n - 31]

HexDigits ==
    << "0", "1", "2", "3", "4", "5", "6", "7", "8", "9", "A", "B", "C", "D", "E", "F" >>

IsUpper(c) == Ord(c) \in 65..90

IsAlnum(c) == Ord(c) \in ((48..57) \cup (65..90) \cup (97..122))

\* str.lower() on one ASCII character.
LowerChar(c) == IF IsUpper(c) THEN Chr(Ord(c) + 32) ELSE c

\* F applied to the value of x (x is evaluated once, however often F uses it).
With(x, F(_)) == CHOOSE r \in { F(v) : v \in { x } } : TRUE

\* str.lower()
Lower(str) == With(str, LAMBDA s : [i \in 1..Len(s) |-> LowerChar(s[i])])

\* Python's str < str: lexicographic by code point, a proper prefix first.
RECURSIVE StrLess(_, _)
StrLess(a, b) ==
    IF b = <<>> THEN FALSE
    ELSE IF a = <<>> THEN TRUE
    ELSE IF a[1] # b[1] THEN Ord(a[1]) < Ord(b[1])
    ELSE StrLess(Tail(a), Tail(b))

\* The concatenation of a sequence of strings.
RECURSIVE Concat(_)
Concat(strs) ==
    With(strs, LAMBDA ss :
        IF ss = <<>> THEN <<>>
        ELSE IF Len(ss) = 1 THEN ss[1]
        ELSE Concat(SubSeq(ss, 1, Len(ss) \div 2)) \o Concat(SubSeq(ss, (Len(ss) \div 2) + 1, Len(ss))))

\* sep.join(parts)
RECURSIVE Join(_, _)
Join(sep, strs) ==
    With(strs, LAMBDA parts :
        IF parts = <<>> THEN <<>>
        ELSE IF Len(parts) = 1 THEN parts[1]
        ELSE parts[1] \o sep \o Join(sep, Tail(parts)))

\* str.replace(pat, rep): every non-overlapping occurrence, left to right.
RECURSIVE Replace(_, _, _)
Replace(str, pat, rep) ==
    With(str, LAMBDA s :
        LET starts == { i \in 1..(Len(s) - Len(pat) + 1) : SubSeq(s, i, i + Len(pat) - 1) = pat }
        IN  IF starts = {} THEN s
            ELSE LET k == CHOOSE i \in starts : \A j \in starts : i <= j
                 IN  SubSeq(s, 1, k - 1) \o rep \o Replace(SubSeq(s, k + Len(pat), Len(s)), pat, rep))

\* pat in s
Contains(str, pat) ==
    With(str, LAMBDA s : \E i \in 1..(Len(s) - Len(pat) + 1) : SubSeq(s, i, i + Len(pat) - 1) = pat)

\* str.strip() for the blank character.
RECURSIVE Strip(_)
Strip(str) ==
    With(str, LAMBDA s :
        IF s = <<>> THEN s
        ELSE IF s[1] = " " THEN Strip(Tail(s))
        ELSE IF s[Len(s)] = " " THEN Strip(SubSeq(s, 1, Len(s) - 1))
        ELSE s)

(***************************************************************************)
(* SignatureCodec: gen_check_mac_value, verify_ecpay_signature             *)
(***************************************************************************)

\* The gateway secrets (stage defaults, shortened to their first characters).
ECPAY_HASH_KEY == << "p", "w" >>

ECPAY_HASH_IV == << "E", "k" >>

\* Python's None as a dict value (no string is this sequence).
NoneVal == << "None" >>

\* The name of the MAC field.
CheckMacValue == << "C", "h", "e", "c", "k", "M", "a", "c", "V", "a", "l", "u", "e" >>

\* A dict is the sequence of its (key, value) items in insertion order.
DictKeys(d) == {d[i][1] : i \in 1..Len(d)}

\* d.get(k, default)
DictGet(dict, k, default) ==
    With(dict, LAMBDA d :
        IF k \in DictKeys(d)
        THEN d[CHOOSE i \in 1..Len(d) : d[i][1] = k][2]
        ELSE default)

\* d[k] = v: an existing key keeps its position, a new key goes last.
DictSet(dict, k, v) ==
    With(dict, LAMBDA d :
        IF k \in DictKeys(d)
        THEN [i \in 1..Len(d) |-> IF d[i][1] = k THEN <<k, v>> ELSE d[i]]
        ELSE Append(d, <<k, v>>))

\* d.pop(k, None)
DictPop(d, k) == SelectSeq(d, LAMBDA it : it[1] # k)

\* urllib.parse.quote_plus on one character.
QuoteChar(c) ==
    IF IsAlnum(c) \/ c \in {"_", ".", "-", "~"} THEN <<c>>
    ELSE IF c = " " THEN << "+" >>
    ELSE << "%", HexDigits[(Ord(c) \div 16) + 1], HexDigits[(Ord(c) % 16) + 1] >>

\* urllib.parse.quote_plus
quote_plus(str) == With(str, LAMBDA s : Concat([i \in 1..Len(s) |-> QuoteChar(s[i])]))

\* sorted(items, key=lambda x: x[0].lower()): a stable insertion sort, so items
\* whose lower-cased keys are equal keep their insertion order.
RECURSIVE SortedInsert(_, _)
SortedInsert(items, it) ==
    With(items, LAMBDA sorted :
        IF sorted = <<>> THEN <<it>>
        ELSE IF StrLess(Lower(it[1]), Lower(sorted[1][1]))
             THEN <<it>> \o sorted
             ELSE <<sorted[1]>> \o SortedInsert(Tail(sorted), it))

RECURSIVE sorted_items(_)
sorted_items(dict_items) ==
    With(dict_items, LAMBDA items :
        IF items = <<>> THEN <<>>
        ELSE SortedInsert(sorted_items(SubSeq(items, 1, Len(items) - 1)), items[Len(items)]))

\* Step 0: values of None are dropped, the others are strings.
processed_params(params) == SelectSeq(params, LAMBDA it : it[2] # NoneVal)

\* Step 6: the characters the gateway leaves unescaped.
RestoreChars(encoded) ==
    Replace(Replace(Replace(Replace(Replace(Replace(Replace(encoded,
        << "%", "2", "d" >>, << "-" >>),
        << "%", "5", "f" >>, << "_" >>),
        << "%", "2", "e" >>, << "." >>),
        << "%", "2", "1" >>, << "!" >>),
        << "%", "2", "a" >>, << "*" >>),
        << "%", "2", "8" >>, << "(" >>),
        << "%", "2", "9" >>, << ")" >>)

\* CanonicalString with the lower-casing of step 5 left out.
CanonicalString_NoLower(params) ==
    LET query == With(sorted_items(DictPop(processed_params(params), CheckMacValue)), LAMBDA items :
                      Join(<< "&" >>,
                           [i \in 1..Len(items) |-> items[i][1] \o << "=" >> \o items[i][2]]))
        raw == << "H", "a", "s", "h", "K", "e", "y", "=" >> \o Strip(ECPAY_HASH_KEY)
               \o << "&" >> \o query
               \o << "&", "H", "a", "s", "h", "I", "V", "=" >> \o Strip(ECPAY_HASH_IV)
    IN  RestoreChars(quote_plus(raw))

\* Steps 1-6: the string that is hashed.
CanonicalString(params) ==
    LET query == With(sorted_items(DictPop(processed_params(params), CheckMacValue)), LAMBDA items :
                      Join(<< "&" >>,
                           [i \in 1..Len(items) |-> items[i][1] \o << "=" >> \o items[i][2]]))
        raw == << "H", "a", "s", "h", "K", "e", "y", "=" >> \o Strip(ECPAY_HASH_KEY)
               \o << "&" >> \o query
               \o << "&", "H", "a", "s", "h", "I", "V", "=" >> \o Strip(ECPAY_HASH_IV)
    IN  RestoreChars(Lower(quote_plus(raw)))

\* hashlib.sha256(...).hexdigest().upper(): the digest is a collision-free tag
\* of the hashed string.
Sha256Upper(s) == << "SHA256" >> \o s

\* The exception gen_check_mac_value raises.
ValueError == << "ValueError" >>

\* gen_check_mac_value: ValueError when a secret is missing or blank.
gen_check_mac_value(params) ==
    IF ECPAY_HASH_KEY = <<>> \/ ECPAY_HASH_IV = <<>> THEN ValueError
    ELSE IF Strip(ECPAY_HASH_KEY) = <<>> \/ Strip(ECPAY_HASH_IV) = <<>> THEN ValueError
    ELSE Sha256Upper(CanonicalString(params))

\* verify_ecpay_signature: an exception of gen_check_mac_value gives False.
verify_ecpay_signature(params) ==
    LET received_signature == DictGet(params, CheckMacValue, <<>>)
        expected_signature == gen_check_mac_value(params)
    IN  IF expected_signature = ValueError THEN FALSE
        ELSE received_signature = expected_signature

(***************************************************************************)
(* SpecSig: sign a parameter map, then verify it intact, verify it with    *)
(* one value changed, or sign it again in another insertion order.         *)
(***************************************************************************)

\* The most entries of a parameter map.
SigMaxParams == 2

SigKeys == { << "a" >>, << "A" >>, << "b" >> }

SigValues == { << "x" >>, << "X" >>, << "1", "!" >>, << " ", "=" >> }

\* The parameter maps: at most SigMaxParams items with distinct keys.
ParamMaps ==
    UNION { { d \in [1..n -> SigKeys \X SigValues] :
                \A i, j \in 1..n : i # j => d[i][1] # d[j][1] } : n \in 0..SigMaxParams }

\* The insertion orders of a dict: its items under a permutation of the positions.
Shuffles(d) ==
    { [i \in 1..Len(d) |-> d[p[i]]] :
        p \in { q \in [1..Len(d) -> 1..Len(d)] : \A i, j \in 1..Len(d) : i # j => q[i] # q[j] } }

NoMac == << >>

\* os.getenv("ENVIRONMENT", "production"), and
\* os.getenv("ECPAY_INVOICE_ENABLED", "false").lower() == "true"
DefaultConfig == [ENVIRONMENT |-> "production", ECPAY_INVOICE_ENABLED |-> FALSE]

\* The signature variables at rest, for the other specifications.
SigIdle ==
    /\ sigParams = << >>
    /\ sigPhase = "new"
    /\ sigMac = << >>
    /\ sigRecv = << >>
    /\ sigIdx = 0
    /\ sigOk = FALSE

InitSig ==
    /\ use_postgresql = FALSE
    /\ tz_offset = 0
    /\ now = 0
    /\ config = DefaultConfig
    /\ db = << >>
    /\ tx = << >>
    /\ rq = << >>
    /\ rlog = << >>
    /\ sigParams \in ParamMaps
    /\ sigPhase = "new"
    /\ sigMac = NoMac
    /\ sigRecv = << >>
    /\ sigIdx = 0
    /\ sigOk = FALSE

\* mac = gen_check_mac_value(params)
SigSign ==
    /\ sigPhase = "new"
    /\ sigMac' = gen_check_mac_value(sigParams)
    /\ sigPhase' = "signed"
    /\ UNCHANGED <<sigParams, sigRecv, sigIdx, sigOk, nonSigVars>>

\* verify_ecpay_signature(params + {CheckMacValue: mac})
SigVerifyIntact ==
    /\ sigPhase = "signed"
    /\ sigRecv' = DictSet(sigParams, CheckMacValue, sigMac)
    /\ sigOk' = verify_ecpay_signature(sigRecv')
    /\ sigPhase' = "verified"
    /\ UNCHANGED <<sigParams, sigMac, sigIdx, nonSigVars>>

\* One value is changed to a different string between signing and verifying.
SigVerifyMutated ==
    /\ sigPhase = "signed"
    /\ \E i \in 1..Len(sigParams), v \in SigValues :
         /\ v # sigParams[i][2]
         /\ sigIdx' = i
         /\ sigRecv' = DictSet(DictSet(sigParams, sigParams[i][1], v), CheckMacValue, sigMac)
    /\ sigOk' = verify_ecpay_signature(sigRecv')
    /\ sigPhase' = "mutated"
    /\ UNCHANGED <<sigParams, sigMac, nonSigVars>>

\* The same map built in another insertion order is signed again.
SigSignShuffled ==
    /\ sigPhase = "signed"
    /\ sigRecv' \in Shuffles(sigParams)
    /\ sigOk' = (gen_check_mac_value(sigRecv') = sigMac)
    /\ sigPhase' = "shuffled"
    /\ UNCHANGED <<sigParams, sigMac, sigIdx, nonSigVars>>

NextSig ==
    \/ SigSign
    \/ SigVerifyIntact
    \/ SigVerifyMutated
    \/ SigSignShuffled

SpecSig == InitSig /\ [][NextSig]_vars

\* Two strings are equal up to ASCII letter case.
SameButCase(a, b) == Lower(a) = Lower(b)

\* C5 (as stated): verify accepts the map it signed, and rejects it once any
\* single value was changed to a different string.
C5_Original ==
    /\ sigPhase = "verified" => sigOk
    /\ sigPhase = "mutated" => ~sigOk

\* C5 (amended): verify accepts the map it signed; with one value changed it
\* rejects the map exactly when the new value differs from the old one in more
\* than ASCII letter case (a change of letter case alone is still accepted).
C5_VerifyCorrect ==
    /\ sigPhase = "verified" => sigOk
    /\ sigPhase = "mutated" =>
         (sigOk <=> SameButCase(sigRecv[sigIdx][2], sigParams[sigIdx][2]))

\* C5 witness: a signed map was verified with one value changed beyond letter
\* case, and was rejected.
C5_Witness ==
    /\ sigPhase = "mutated"
    /\ ~SameButCase(sigRecv[sigIdx][2], sigParams[sigIdx][2])
    /\ ~sigOk

\* C6: signing the same parameter map in any insertion order gives the same
\* MAC, also when two keys are equal up to letter case.
C6_SignOrderIndependent == sigPhase = "shuffled" => sigOk

(***************************************************************************)
(* Time.  One unit of time is the offset of TAIWAN_TZ from UTC.            *)
(***************************************************************************)

\* TAIWAN_TZ = timezone(timedelta(hours=8))
TaiwanOffsetHours == 8

\* timedelta(hours=n), timedelta(days=n) in units of time.
Hours(n) == n \div TaiwanOffsetHours

Days(n) == Hours(n * 24)

\* The zones a deployment's local time (the server's, the database session's)
\* can be in: UTC, or Taiwan's.
ServerZones == { Hours(0), Hours(TaiwanOffsetHours) }

\* A stored time as the handlers read it back: the instant t comes back as the
\* naive local time of the deployment (datetime.fromtimestamp, a TIMESTAMP
\* column), and ensure_timezone_aware takes a naive time to be Taiwan's.
ensure_timezone_aware(t) == t + tz_offset - Hours(TaiwanOffsetHours)

\* datetime(2099, 12, 31, 23, 59, 59): the far-future sentinel of a lifetime plan.
FarFuture == Days(36500)

\* link_expires_at = get_taiwan_time() + timedelta(days=7)
LinkDays == 7

\* How many units of time the clock runs on, from one unit before the link's
\* expiry.
ClockTicks == 2

FirstNow == Days(LinkDays) - Hours(TaiwanOffsetHours)

LastNow == FirstNow + ClockTicks

\* The clock advances.
Tick ==
    /\ now < LastNow
    /\ now' = now + 1

(***************************************************************************)
(* Datastore: get_db_connection.  PostgreSQL connections are in autocommit *)
(* mode: every statement is committed when it is executed and              *)
(* commit/rollback do nothing.  A SQLite connection opens a transaction at *)
(* its first writing statement, holds the database's write lock until      *)
(* commit, rollback or close, and its writes are seen by the others only   *)
(* after commit.  A handler's record says in field intx whether its        *)
(* connection holds the open SQLite transaction.                           *)
(***************************************************************************)

Users == { "u1", "u2" }

\* current_user_id of an unauthenticated caller.
NoUser == "anonymous"

NoTx == [held |-> FALSE, image |-> << >>]

\* The tables as the handler h reads them.
View(h) == IF h.intx THEN tx.image ELSE db

\* The handler can execute a writing statement now (a SQLite writer waits for
\* the write lock).
CanWrite(h) == use_postgresql \/ ~tx.held \/ h.intx

\* The handler's connection after a writing statement.
InTx == ~use_postgresql

\* A writing statement gave the tables `image`.
Written(image) ==
    IF use_postgresql
    THEN db' = image /\ tx' = tx
    ELSE tx' = [held |-> TRUE, image |-> image] /\ db' = db

\* conn.commit()
Committed(h) ==
    IF h.intx
    THEN db' = tx.image /\ tx' = NoTx
    ELSE db' = db /\ tx' = tx

\* conn.rollback(), or conn.close() with a transaction open.
RolledBack(h) ==
    /\ db' = db
    /\ tx' = IF h.intx THEN NoTx ELSE tx

\* A writing statement followed at once by conn.commit().
WrittenAndCommitted(image) == db' = image /\ tx' = NoTx

\* The bag b with one copy of h replaced by h2.
Replaced(b, h, h2) == (b (-) SetToBag({h})) (+) SetToBag({h2})

(***************************************************************************)
(* Rows                                                                    *)
(***************************************************************************)

NoLicense == [exists |-> FALSE, tier |-> "", expires_at |-> 0, status |-> "", source |-> << >>]

NoUserRow == [exists |-> FALSE, email |-> << >>, is_subscribed |-> FALSE]

\* No message of the gateway (the raw_payload of a fresh order).
NoMessage == 0

NoOrder ==
    [exists |-> FALSE, user_id |-> "", plan_type |-> "", amount |-> 0,
     payment_status |-> "", payment_method |-> << >>, trade_no |-> << >>, paid_at |-> 0,
     expires_at |-> 0, invoice_number |-> << >>, invoice_type |-> "", is_upgrade |-> FALSE,
     payment_code |-> << >>, raw_payload |-> NoMessage, created_at |-> 0]

\* INSERT INTO licenses ... ON CONFLICT (user_id) DO UPDATE / INSERT OR REPLACE
\* INTO licenses, with or without the source column.  REPLACE deletes the old
\* row, so a column that is not listed falls back to its default.
UpsertLicense(tables, user_id, tier, expires_at, source, withSource) ==
    LET old == tables.licenses[user_id]
        src == IF withSource THEN source
               ELSE IF use_postgresql /\ old.exists THEN old.source
               ELSE << >>
    IN  [tables EXCEPT !.licenses[user_id] =
            [exists |-> TRUE, tier |-> tier, expires_at |-> expires_at,
             status |-> "active", source |-> src]]

(***************************************************************************)
(* LicenseActivationService: verify_license_token (redeem)                 *)
(***************************************************************************)

\* The trial window and the default entitlements, in days.
TrialDays == 7

YearDays == 365

LifetimeDays == 365 * 100

\* The redemption requests that are made.
MaxRequests == 2

\* The datastore errors that can strike.
MaxFaults == 1

\* The activation's token, a well-formed token of no activation, a malformed
\* token, and no token.
TheToken == << "t", "1" >>

NoToken == << >>

Tokens == { TheToken, << "t", "-", "_" >>, << "t", "'" >>, NoToken }

PlanTypes == { "trial", "yearly", "lifetime" }

\* The channel's own order reference, and the gateway-facing order id.
OrderIds == { << "O", "1" >>, << "X", "1" >> }

\* verify_license_webhook, issuing at time 0: a pending activation.
IssuedActivation(plan) ==
    [activation_token |-> TheToken, channel |-> << "c", "o", "u", "r", "s", "e" >>, order_id |-> << "X", "1" >>,
     email |-> << "A", "@" >>, plan_type |-> plan, amount |-> 0,
     status |-> "pending", activated_at |-> 0, activated_by_user_id |-> NoUser,
     link_expires_at |-> Days(LinkDays),
     license_expires_at |-> IF plan = "lifetime" THEN FarFuture
                            ELSE IF plan = "trial" THEN Days(TrialDays)
                            ELSE Days(YearDays)]

\* A request that has returned `result`: its locals are gone.
Returned(result) ==
    [pc |-> "done", token |-> NoToken, user |-> NoUser, user_exists |-> FALSE,
     license_expire_dt |-> 0, intx |-> FALSE, result |-> result]

\* A request that arrived.
Arrived(token, user) ==
    [Returned("") EXCEPT !.pc = "select", !.token = token, !.user = user]

\* The datastore of the redemption scenarios: one pending activation, user u1
\* registered under the activation's email (in another letter case), user u2
\* logged in but without a user_auth row yet.
InitRedeemDb ==
    \E plan \in PlanTypes :
        db = [license_activations |-> IssuedActivation(plan),
              licenses |-> [u \in Users |-> NoLicense],
              user_auth |-> [u \in Users |->
                  IF u = "u1" THEN [exists |-> TRUE, email |-> << "a", "@" >>, is_subscribed |-> FALSE]
                  ELSE NoUserRow],
              orders |-> [o \in OrderIds |-> NoOrder]]

InitRedeem ==
    /\ SigIdle
    /\ use_postgresql \in BOOLEAN
    /\ tz_offset \in ServerZones
    /\ now = FirstNow
    /\ config = DefaultConfig
    /\ InitRedeemDb
    /\ tx = NoTx
    /\ rq = EmptyBag
    /\ rlog = [started |-> 0, hits |-> 0, upserts |-> 0, faults |-> 0]

\* len(token) > 200 or not all(c.isalnum() or c in '-_' for c in token)
TokenMalformed(token) ==
    Len(token) > 200 \/ \E i \in 1..Len(token) : ~(IsAlnum(token[i]) \/ token[i] \in {"-", "_"})

\* The requests at program point pc.
RequestsAt(pc) == { h \in BagToSet(rq) : h.pc = pc }

\* Request h goes on as h2, returns `result`.
GoesOn(h, h2) == rq' = Replaced(rq, h, h2)

Returns(h, result) == rq' = Replaced(rq, h, Returned(result))

\* The except branch: rollback (SQLite only), close, status 500.
RedeemRaises(h) ==
    /\ rlog.faults < MaxFaults
    /\ rlog' = [rlog EXCEPT !.faults = @ + 1]
    /\ RolledBack(h)
    /\ Returns(h, "error_500")

\* A request arrives; the token's format is checked before the datastore is touched.
RedeemCalled(limit) ==
    /\ rlog.started < limit
    /\ rlog' = [rlog EXCEPT !.started = @ + 1]
    /\ \E token \in Tokens, user \in Users \cup {NoUser} :
         rq' = rq (+) SetToBag({
                  IF token = NoToken THEN Returned("missing_token")
                  ELSE IF TokenMalformed(token) THEN Returned("bad_format")
                  ELSE Arrived(token, user) })
    /\ UNCHANGED <<sigVars, envVars, dbVars>>

RedeemStart == RedeemCalled(MaxRequests)

\* The entitlement's end: a trial runs from the redemption, the other plans use
\* the end computed at issuance (or, without one, a default from now).
LicenseExpireDt(act) ==
    IF act.plan_type = "trial" THEN now + Days(TrialDays)
    ELSE IF act.license_expires_at # 0 THEN ensure_timezone_aware(act.license_expires_at)
    ELSE IF act.plan_type = "lifetime" THEN now + Days(LifetimeDays)
    ELSE now + Days(YearDays)

\* expire_dt < get_taiwan_time()
LinkExpired(act) ==
    act.link_expires_at # 0 /\ ensure_timezone_aware(act.link_expires_at) < now

\* SELECT ... FROM license_activations WHERE activation_token = ?, and the
\* branching on the row read.  The answer to a link found activated
\* ("already_used") carries activated_at and activated_by; the answer to a
\* conditional update of no row ("conflict") does not.
RedeemSelect ==
    /\ \E h \in RequestsAt("select") :
         LET act == View(h).license_activations
         IN  GoesOn(h,
                IF act.activation_token # h.token THEN Returned("not_found")
                ELSE IF act.status = "activated"
                THEN IF h.user # NoUser
                     THEN [h EXCEPT !.pc = "check_email"]
                     ELSE Returned("already_used")
                ELSE IF LinkExpired(act) THEN [h EXCEPT !.pc = "mark_expired"]
                ELSE IF h.user = NoUser THEN Returned("login_redirect")
                ELSE [h EXCEPT !.pc = "cond_update",
                               !.license_expire_dt = LicenseExpireDt(act)])
    /\ UNCHANGED <<sigVars, envVars, dbVars, rlog>>

\* SELECT email FROM user_auth WHERE user_id = ?
RedeemCheckEmail ==
    /\ \E h \in RequestsAt("check_email") :
         LET row == View(h).user_auth[h.user]
             act == View(h).license_activations
         IN  IF row.exists /\ row.email # << >> /\ Lower(row.email) = Lower(act.email)
             THEN GoesOn(h, [h EXCEPT !.pc = "check_subscribed"])
             ELSE Returns(h, "already_used")
    /\ UNCHANGED <<sigVars, envVars, dbVars, rlog>>

\* SELECT is_subscribed FROM user_auth WHERE user_id = ?
RedeemCheckSubscribed ==
    /\ \E h \in RequestsAt("check_subscribed") :
         LET row == View(h).user_auth[h.user]
         IN  IF row.exists /\ row.is_subscribed
             THEN Returns(h, "already_activated")
             ELSE Returns(h, "already_used")
    /\ UNCHANGED <<sigVars, envVars, dbVars, rlog>>

\* UPDATE license_activations SET status = 'expired' WHERE id = ?, committed.
RedeemMarkExpired ==
    /\ \E h \in RequestsAt("mark_expired") :
         /\ CanWrite(h)
         /\ \/ /\ WrittenAndCommitted([View(h) EXCEPT !.license_activations.status = "expired"])
               /\ Returns(h, "expired")
               /\ rlog' = rlog
            \/ RedeemRaises(h)
    /\ UNCHANGED <<sigVars, envVars>>

\* The update without its status condition.
CondUpdateApplies_Always(act) == TRUE

\* WHERE id = ? AND status != 'activated'
CondUpdateApplies(act) == act.status # "activated"

\* UPDATE license_activations SET status = 'activated', ... WHERE id = ? AND
\* status != 'activated', and the test of cursor.rowcount.
RedeemCondUpdate ==
    /\ \E h \in RequestsAt("cond_update") :
         /\ CanWrite(h)
         /\ LET act == View(h).license_activations
            IN  \/ /\ CondUpdateApplies(act)
                   /\ Written([View(h) EXCEPT !.license_activations =
                          [act EXCEPT !.status = "activated", !.activated_at = now,
                                      !.activated_by_user_id = h.user]])
                   /\ GoesOn(h, [h EXCEPT !.pc = "upsert_license", !.intx = InTx])
                   /\ rlog' = [rlog EXCEPT !.hits = @ + 1]
                \/ /\ ~CondUpdateApplies(act)
                   /\ RolledBack(h)
                   /\ Returns(h, "conflict")
                   /\ rlog' = rlog
                \/ RedeemRaises(h)
    /\ UNCHANGED <<sigVars, envVars>>

\* INSERT INTO licenses ... ON CONFLICT (user_id) DO UPDATE / INSERT OR REPLACE
RedeemUpsertLicense ==
    /\ \E h \in RequestsAt("upsert_license") :
         /\ CanWrite(h)
         /\ LET act == View(h).license_activations
            IN  \/ /\ Written(UpsertLicense(View(h), h.user, act.plan_type,
                                            h.license_expire_dt, act.channel, TRUE))
                   /\ GoesOn(h, [h EXCEPT !.pc = "user_select", !.intx = InTx])
                   /\ rlog' = [rlog EXCEPT !.upserts = @ + 1]
                \/ RedeemRaises(h)
    /\ UNCHANGED <<sigVars, envVars>>

\* SELECT user_id FROM user_auth WHERE user_id = ?
RedeemUserSelect ==
    /\ \E h \in RequestsAt("user_select") :
         GoesOn(h, [h EXCEPT !.pc = "user_write",
                             !.user_exists = View(h).user_auth[h.user].exists])
    /\ UNCHANGED <<sigVars, envVars, dbVars, rlog>>

\* INSERT INTO user_auth (a row that exists by now is a constraint violation),
\* or UPDATE user_auth SET is_subscribed = 1.
RedeemUserWrite ==
    /\ \E h \in RequestsAt("user_write") :
         /\ CanWrite(h)
         /\ LET row == View(h).user_auth[h.user]
                act == View(h).license_activations
            IN  \/ /\ ~h.user_exists /\ ~row.exists
                   /\ Written([View(h) EXCEPT !.user_auth[h.user] =
                          [exists |-> TRUE, email |-> act.email, is_subscribed |-> TRUE]])
                   /\ GoesOn(h, [h EXCEPT !.pc = "order_insert", !.intx = InTx])
                   /\ rlog' = rlog
                \/ /\ h.user_exists
                   /\ Written(IF row.exists
                              THEN [View(h) EXCEPT !.user_auth[h.user].is_subscribed = TRUE]
                              ELSE View(h))
                   /\ GoesOn(h, [h EXCEPT !.pc = "order_insert", !.intx = InTx])
                   /\ rlog' = rlog
                \/ /\ ~h.user_exists /\ row.exists
                   /\ rlog' = rlog
                   /\ RolledBack(h)
                   /\ Returns(h, "error_500")
                \/ RedeemRaises(h)
    /\ UNCHANGED <<sigVars, envVars>>

\* INSERT INTO orders ... ON CONFLICT (order_id) DO NOTHING / INSERT OR IGNORE;
\* an exception of this statement is logged and swallowed.
RedeemOrderInsert ==
    /\ \E h \in RequestsAt("order_insert") :
         /\ CanWrite(h)
         /\ LET act == View(h).license_activations
                old == View(h).orders[act.order_id]
            IN  \/ /\ Written(IF old.exists THEN View(h)
                              ELSE [View(h) EXCEPT !.orders[act.order_id] =
                                  [NoOrder EXCEPT !.exists = TRUE, !.user_id = h.user,
                                      !.plan_type = act.plan_type, !.amount = act.amount,
                                      !.payment_method = act.channel,
                                      !.payment_status = "paid", !.paid_at = now,
                                      !.expires_at = h.license_expire_dt,
                                      !.created_at = now]])
                   /\ GoesOn(h, [h EXCEPT !.pc = "commit", !.intx = InTx])
                   /\ rlog' = rlog
                \/ /\ rlog.faults < MaxFaults
                   /\ rlog' = [rlog EXCEPT !.faults = @ + 1]
                   /\ GoesOn(h, [h EXCEPT !.pc = "commit"])
                   /\ UNCHANGED dbVars
    /\ UNCHANGED <<sigVars, envVars>>

\* conn.commit(), then the redirect to the success page.
RedeemCommit ==
    /\ \E h \in RequestsAt("commit") :
         \/ /\ Committed(h)
            /\ Returns(h, "success")
            /\ rlog' = rlog
         \/ RedeemRaises(h)
    /\ UNCHANGED <<sigVars, envVars>>

NextRedeem ==
    \/ Tick /\ UNCHANGED <<sigVars, use_postgresql, tz_offset, config, dbVars, redeemVars>>
    \/ RedeemStart
    \/ RedeemSelect
    \/ RedeemCheckEmail
    \/ RedeemCheckSubscribed
    \/ RedeemMarkExpired
    \/ RedeemCondUpdate
    \/ RedeemUpsertLicense
    \/ RedeemUserSelect
    \/ RedeemUserWrite
    \/ RedeemOrderInsert
    \/ RedeemCommit

SpecRedeem == InitRedeem /\ [][NextRedeem]_vars

(***************************************************************************)
(* Claims on the redemption                                                *)
(***************************************************************************)

\* The results of requests that are not redemptions of the pending, unexpired
\* token by a logged-in user: no or a malformed or an unknown token, no login,
\* a link the handler found expired.
NotARedemption == { "missing_token", "bad_format", "not_found", "login_redirect", "expired" }

\* At least two requests were made, all have returned, each was a redemption of
\* the token, and no datastore error struck.
C1_Case ==
    /\ rlog.started >= 2
    /\ rlog.faults = 0
    /\ \A h \in BagToSet(rq) : h.pc = "done" /\ h.result \notin NotARedemption

\* C1: of N >= 2 redemption requests for the same pending, unexpired token, in
\* any interleaving of their datastore statements, exactly one request's
\* conditional update affects a row and sets the status to activated, every
\* other request is answered with a conflict or with "already activated", and
\* the license is upserted from the token once.
C1_ExactlyOnce ==
    C1_Case =>
        /\ rlog.hits = 1
        /\ CopiesIn(Returned("success"), rq) = 1
        /\ \A h \in BagToSet(rq) :
             h.result \in { "success", "conflict", "already_used", "already_activated" }
        /\ rlog.upserts = 1
        /\ db.license_activations.status = "activated"

\* C1 (witness): two requests read the pending row, one's conditional update
\* affected it and the other's affected no row.
C1_Witness ==
    /\ C1_Case
    /\ CopiesIn(Returned("success"), rq) = 1
    /\ CopiesIn(Returned("conflict"), rq) >= 1

(***************************************************************************)
(* Gateway callbacks                                                       *)
(***************************************************************************)

UpperChar(c) == IF Ord(c) \in 97..122 THEN Chr(Ord(c) - 32) ELSE c

\* str.upper()
Upper(str) == With(str, LAMBDA s : [i \in 1..Len(s) |-> UpperChar(s[i])])

\* The fields of a callback that the handlers read.
MerchantTradeNo == << "M", "e", "r", "c", "h", "a", "n", "t", "T", "r", "a", "d", "e", "N", "o" >>

TradeNo == << "T", "r", "a", "d", "e", "N", "o" >>

RtnCode == << "R", "t", "n", "C", "o", "d", "e" >>

TradeAmt == << "T", "r", "a", "d", "e", "A", "m", "t" >>

PaymentType == << "P", "a", "y", "m", "e", "n", "t", "T", "y", "p", "e" >>

PaymentDate == << "P", "a", "y", "m", "e", "n", "t", "D", "a", "t", "e" >>

\* The gateway's result code of a success.
RtnCodeSuccess == << "1" >>

\* The decimal digits of a natural number, and the number of a digit string.
Digits == << "0", "1", "2", "3", "4", "5", "6", "7", "8", "9" >>

RECURSIVE FormatNat(_)
FormatNat(n) == IF n < 10 THEN << Digits[n + 1] >> ELSE FormatNat(n \div 10) \o << Digits[(n % 10) + 1] >>

IsDigits(s) == s # << >> /\ \A i \in 1..Len(s) : \E d \in 1..10 : Digits[d] = s[i]

RECURSIVE ParseNat(_)
ParseNat(str) ==
    With(str, LAMBDA s :
        IF s = << >> THEN 0
        ELSE 10 * ParseNat(SubSeq(s, 1, Len(s) - 1)) + (CHOOSE d \in 0..9 : Digits[d + 1] = s[Len(s)]))

\* datetime.strptime(payment_date, ...): the gateway writes a date as text (here
\* the number of the day); a text that is no date does not parse.
CanParseDate(s) == IsDigits(s)

strptime(s) == Days(ParseNat(s))

\* paid_at_datetime: the callback's PaymentDate, or the time of processing when
\* there is none or it does not parse.
PaidAt(cb) ==
    LET payment_date == DictGet(cb, PaymentDate, << >>)
    IN  IF payment_date # << >> /\ CanParseDate(payment_date) THEN strptime(payment_date) ELSE now

\* payment_type in ("ATM", "CVS", "BARCODE")
is_atm_cvs(payment_type) == payment_type \in { << "A", "T", "M" >>, << "C", "V", "S" >>, << "B", "A", "R", "C", "O", "D", "E" >> }

\* payment_type in ("Credit", "WebATM") or "LINE" in payment_type.upper() or
\* "APPLE" in payment_type.upper()
is_credit_linepay(payment_type) ==
    \/ payment_type \in { << "C", "r", "e", "d", "i", "t" >>, << "W", "e", "b", "A", "T", "M" >> }
    \/ Contains(Upper(payment_type), << "L", "I", "N", "E" >>)
    \/ Contains(Upper(payment_type), << "A", "P", "P", "L", "E" >>)

\* The source addresses: one of the gateway's, one that is not.
ECPAY_IP_WHITELIST == { "gateway" }

ClientIps == { "gateway", "other" }

is_ecpay_ip(ip_address) == ip_address # "" /\ ip_address \in ECPAY_IP_WHITELIST

\* The order of the payment scenarios, an order id that no order has, and the
\* order's amount.
TheOrder == << "O", "1" >>

UnknownOrder == << "Z", "9" >>

OrderAmount == 99

\* A callback as the gateway sends it: the fields, and their MAC.
GatewayCallback(order_id, trade_no, rtn_code, payment_type, payment_date) ==
    LET fields == << <<MerchantTradeNo, order_id>>, <<TradeNo, trade_no>>, <<RtnCode, rtn_code>>,
                     <<TradeAmt, FormatNat(OrderAmount)>>, <<PaymentType, payment_type>> >>
        params == IF payment_date = << >> THEN fields ELSE Append(fields, <<PaymentDate, payment_date>>)
    IN  DictSet(params, CheckMacValue, gen_check_mac_value(params))

\* The messages that arrive, by their places in the list Messages.  From the
\* gateway, about the order: a card payment (dated), the same payment under
\* another trade number, a payment by bank transfer, a refused payment; and a
\* payment of an order this service does not have.
CardPaid == 1

CardPaidAgain == 2

BankPaid == 3

CardRefused == 4

UnknownPaid == 5

GatewayFields ==
    << [order_id |-> TheOrder, trade_no |-> << "T", "1" >>, rtn_code |-> RtnCodeSuccess,
        payment_type |-> << "C", "r", "e", "d", "i", "t" >>, payment_date |-> << "1" >>],
       [order_id |-> TheOrder, trade_no |-> << "T", "2" >>, rtn_code |-> RtnCodeSuccess,
        payment_type |-> << "C", "r", "e", "d", "i", "t" >>, payment_date |-> << >>],
       [order_id |-> TheOrder, trade_no |-> << "T", "1" >>, rtn_code |-> RtnCodeSuccess,
        payment_type |-> << "A", "T", "M" >>, payment_date |-> << >>],
       [order_id |-> TheOrder, trade_no |-> << "T", "1" >>, rtn_code |-> << "0" >>,
        payment_type |-> << "C", "r", "e", "d", "i", "t" >>, payment_date |-> << >>],
       [order_id |-> UnknownOrder, trade_no |-> << "T", "1" >>, rtn_code |-> RtnCodeSuccess,
        payment_type |-> << "C", "r", "e", "d", "i", "t" >>, payment_date |-> << >>] >>

\* The place of message cb with its amount field altered after the MAC was
\* computed, and the altered message.
Tampered(cb) == cb + Len(GatewayFields)

Altered(body) == DictSet(body, TradeAmt, << "1" >>)

\* The messages: the gateway's, then each of them altered.  A request refers to
\* its message by the message's place in this list; so does the raw_payload of
\* an order.
Messages ==
    With([i \in 1..Len(GatewayFields) |->
              GatewayCallback(GatewayFields[i].order_id, GatewayFields[i].trade_no,
                              GatewayFields[i].rtn_code, GatewayFields[i].payment_type,
                              GatewayFields[i].payment_date)],
         LAMBDA genuine : genuine \o [i \in 1..Len(genuine) |-> Altered(genuine[i])])

Body(cb) == Messages[cb]

OrderCallbacks == { CardPaid, CardPaidAgain, BankPaid, CardRefused }

GenuineCallbacks == OrderCallbacks \cup { UnknownPaid }

TamperedCallbacks == { Tampered(cb) : cb \in GenuineCallbacks }

Callbacks == GenuineCallbacks \cup TamperedCallbacks

\* Every callback taken to verify.
VerifiedCallbacks_All == Callbacks

\* The callbacks whose MAC verifies.
VerifiedCallbacks == { cb \in Callbacks : verify_ecpay_signature(Body(cb)) }

(***************************************************************************)
(* WebhookProcessor and RefundCoordinator: ecpay_webhook,                  *)
(* ecpay_return_url, process_ecpay_refund                                  *)
(***************************************************************************)

\* The requests (callbacks delivered, refunds asked for) of the scenarios with
\* concurrent requests.
MaxHandlers == 2

\* timedelta(days=730), timedelta(days=30)
TwoYearDays == 730

MonthDays == 30

\* refund_amount = None
NoAmount == -1

\* A handler's invocation before its first statement, and its locals.
NewHandler(kind, cb) ==
    [pc |-> "new", kind |-> kind, cb |-> cb, client_ip |-> "", intx |-> FALSE,
     order_id |-> IF cb = NoMessage THEN << >> ELSE DictGet(Body(cb), MerchantTradeNo, << >>),
     refund_amount |-> NoAmount,
     user_id |-> NoUser, plan_type |-> "", paid_at |-> 0, expires_dt |-> 0,
     invoice_number |-> << >>, result |-> ""]

\* An invocation that has answered `result`: its locals are gone.
Answered(h, result) ==
    [NewHandler(h.kind, h.cb) EXCEPT !.pc = "done", !.order_id = h.order_id,
                                     !.client_ip = h.client_ip,
                                     !.refund_amount = h.refund_amount, !.result = result]

Answers(h, result) == rq' = Replaced(rq, h, Answered(h, result))

\* Some handler has not answered yet.
InFlight == \E h \in BagToSet(rq) : h.pc # "done"

\* SELECT ... FROM orders WHERE order_id = ?
OrderRow(tables, order_id) ==
    IF order_id \in DOMAIN tables.orders THEN tables.orders[order_id] ELSE NoOrder

\* The update that is not executed.
UpdateOrders_Skipped(tables, order_id, set) == tables

\* UPDATE orders SET ... WHERE order_id = ?
UpdateOrders(tables, order_id, set) ==
    IF OrderRow(tables, order_id).exists
    THEN [tables EXCEPT !.orders[order_id] =
             [f \in DOMAIN @ |-> IF f \in DOMAIN set THEN set[f] ELSE @[f]]]
    ELSE tables

\* create_payment_order: a pending order of user u1.
PendingOrder ==
    [NoOrder EXCEPT !.exists = TRUE, !.user_id = "u1", !.plan_type = "yearly",
                    !.amount = OrderAmount, !.payment_status = "pending",
                    !.invoice_type = "personal"]

\* The tables with the order pending, and as the handlers leave them: after the
\* card payment CardPaid (ecpay_webhook), after the refusal CardRefused, and
\* after the refund of the paid order.
PendingTables ==
    [license_activations |-> IssuedActivation("yearly"),
     licenses |-> [u \in Users |-> NoLicense],
     user_auth |-> [u \in Users |->
         [exists |-> TRUE, email |-> << "a", "@" >>, is_subscribed |-> FALSE]],
     orders |-> [o \in OrderIds |-> IF o = TheOrder THEN PendingOrder ELSE NoOrder]]

PaidTables ==
    [PendingTables EXCEPT
        !.orders[TheOrder] =
            [@ EXCEPT !.payment_status = "paid", !.payment_method = << "C", "r", "e", "d", "i", "t" >>,
                      !.trade_no = << "T", "1" >>, !.paid_at = Days(1),
                      !.expires_at = Days(1) + Days(YearDays),
                      !.invoice_number = TheOrder, !.raw_payload = CardPaid],
        !.licenses["u1"] =
            [exists |-> TRUE, tier |-> "yearly", expires_at |-> Days(1) + Days(YearDays),
             status |-> "active", source |-> << >>],
        !.user_auth["u1"].is_subscribed = TRUE]

FailedTables ==
    [PendingTables EXCEPT !.orders[TheOrder].payment_status = "failed",
                          !.orders[TheOrder].raw_payload = CardRefused]

RefundedTables == [PaidTables EXCEPT !.orders[TheOrder].payment_status = "refunded"]

\* validate_plan_type: plan in ("monthly", "yearly", "two_year", "lifetime")
validate_plan_type(plan) == plan \in { "monthly", "yearly", "two_year", "lifetime" }

\* The tables with the order pending for another plan (create_payment_order),
\* or as an upgrade order (upgrade_to_lifetime: plan_type lifetime, is_upgrade
\* in the metadata, no invoice_type).
OtherPlanTables ==
    { [PendingTables EXCEPT !.orders[TheOrder].plan_type = plan] : plan \in { "monthly", "two_year" } }
    \cup { [PendingTables EXCEPT !.orders[TheOrder].plan_type = "lifetime",
                                 !.orders[TheOrder].is_upgrade = TRUE,
                                 !.orders[TheOrder].invoice_type = ""] }

\* What the handlers did so far: nothing; and the state the order was in.
NothingDone(tables) ==
    [order_was |-> tables.orders[TheOrder].payment_status, started |-> 0, faults |-> 0, overlap |-> FALSE, writes |-> 0,
     paid_writes |-> 0, upserts |-> 0, invoices |-> 0, pending_reads |-> 0,
     gateway_calls |-> 0, gateway_ok |-> 0]

\* Concurrent requests about a pending or a paid order, in production.
InitPay ==
    /\ SigIdle
    /\ use_postgresql \in BOOLEAN
    /\ tz_offset = Hours(TaiwanOffsetHours)
    /\ now = FirstNow
    /\ config \in [ENVIRONMENT : { "production" }, ECPAY_INVOICE_ENABLED : BOOLEAN]
    /\ db \in { PendingTables, PaidTables }
    /\ tx = NoTx
    /\ rq = EmptyBag
    /\ rlog = NothingDone(db)

\* One request, about an order in any state, in any deployment.
InitOne ==
    /\ SigIdle
    /\ use_postgresql \in BOOLEAN
    /\ tz_offset = Hours(TaiwanOffsetHours)
    /\ now = FirstNow
    /\ config \in [ENVIRONMENT : { "production", "development" }, ECPAY_INVOICE_ENABLED : BOOLEAN]
    /\ db \in { PendingTables, PaidTables, FailedTables, RefundedTables } \cup OtherPlanTables
    /\ tx = NoTx
    /\ rq = EmptyBag
    /\ rlog = NothingDone(db)

\* The except branch of a callback handler: conn.rollback(), "0|FAIL".
PayRaises(h) ==
    /\ rlog.faults < MaxFaults
    /\ rlog' = [rlog EXCEPT !.faults = @ + 1]
    /\ RolledBack(h)
    /\ Answers(h, "0|FAIL")

\* ecpay_webhook up to its first statement: the source address, then the MAC,
\* then the result code.
WebhookEnters(cb, client_ip) ==
    LET h == [NewHandler("webhook", cb) EXCEPT !.client_ip = client_ip]
    IN  IF ~is_ecpay_ip(client_ip) /\ config.ENVIRONMENT = "production"
        THEN Answered(h, "0|FAIL")
        ELSE IF cb \notin VerifiedCallbacks THEN Answered(h, "0|FAIL")
        ELSE IF DictGet(Body(cb), RtnCode, << >>) # RtnCodeSuccess
        THEN [h EXCEPT !.pc = "wh_mark_failed"]
        ELSE [h EXCEPT !.pc = "wh_select"]

\* A POST to /api/payment/webhook.
WebhookArrives(limit, callbacks, ips) ==
    /\ rlog.started < limit
    /\ \E cb \in callbacks, client_ip \in ips :
         rq' = rq (+) SetToBag({ WebhookEnters(cb, client_ip) })
    /\ rlog' = [rlog EXCEPT !.started = @ + 1, !.overlap = @ \/ InFlight]
    /\ UNCHANGED <<sigVars, envVars, dbVars>>

\* UPDATE orders SET payment_status = 'failed', raw_payload = ...; commit.  An
\* exception of this block is logged; the answer is "1|OK" either way.
WebhookMarkFailed ==
    /\ \E h \in RequestsAt("wh_mark_failed") :
         /\ CanWrite(h)
         /\ \/ /\ WrittenAndCommitted(UpdateOrders(View(h), h.order_id,
                      [payment_status |-> "failed", raw_payload |-> h.cb]))
               /\ rlog' = [rlog EXCEPT !.writes = @ + 1]
               /\ Answers(h, "1|OK")
            \/ /\ rlog.faults < MaxFaults
               /\ rlog' = [rlog EXCEPT !.faults = @ + 1]
               /\ RolledBack(h)
               /\ Answers(h, "1|OK")
    /\ UNCHANGED <<sigVars, envVars>>

\* existing_trade_no and existing_trade_no == trade_no and current_status == "paid"
AlreadyProcessed(order, trade_no) ==
    order.trade_no # << >> /\ order.trade_no = trade_no /\ order.payment_status = "paid"

\* The tier that is granted: an upgrade order grants lifetime.
GrantedPlan(order) == IF order.is_upgrade THEN "lifetime" ELSE order.plan_type

\* expires_dt in ecpay_webhook, in ecpay_return_url.
WebhookExpires(order, paid_at) ==
    IF order.is_upgrade \/ order.plan_type = "lifetime" THEN FarFuture
    ELSE paid_at + Days(YearDays)

ReturnUrlExpires(order, paid_at) ==
    IF order.is_upgrade \/ order.plan_type = "lifetime" THEN FarFuture
    ELSE IF order.plan_type = "two_year" THEN paid_at + Days(TwoYearDays)
    ELSE IF order.plan_type = "yearly" THEN paid_at + Days(YearDays)
    ELSE paid_at + Days(MonthDays)

\* The SELECT of the order in ecpay_webhook, and the branching on it.
WebhookSelect ==
    /\ \E h \in RequestsAt("wh_select") :
         LET order == OrderRow(View(h), h.order_id)
             payment_type == DictGet(Body(h.cb), PaymentType, << >>)
             rtn_code == DictGet(Body(h.cb), RtnCode, << >>)
             pays == /\ is_credit_linepay(payment_type)
                        \/ (is_atm_cvs(payment_type) /\ order.payment_status = "pending")
                     /\ rtn_code = RtnCodeSuccess
         IN  IF ~order.exists THEN Answers(h, "1|OK") /\ rlog' = rlog
             ELSE IF AlreadyProcessed(order, DictGet(Body(h.cb), TradeNo, << >>))
             THEN Answers(h, "1|OK") /\ rlog' = rlog
             ELSE IF is_atm_cvs(payment_type) /\ order.payment_status = "pending"
             THEN GoesOn(h, [h EXCEPT !.pc = "wh_issue_code"]) /\ rlog' = rlog
             ELSE IF pays
             THEN /\ GoesOn(h, [h EXCEPT !.pc = "wh_invoice", !.user_id = order.user_id,
                                         !.plan_type = GrantedPlan(order),
                                         !.paid_at = PaidAt(Body(h.cb)),
                                         !.expires_dt = WebhookExpires(order, PaidAt(Body(h.cb)))])
                  /\ rlog' = [rlog EXCEPT !.pending_reads =
                                 IF order.payment_status = "pending" THEN @ + 1 ELSE @]
             ELSE Answers(h, "1|OK") /\ rlog' = rlog
    /\ UNCHANGED <<sigVars, envVars, dbVars>>

\* The code issuance of an offline method: UPDATE orders SET trade_no,
\* payment_method, payment_code, ...; commit.
WebhookIssueCode ==
    /\ \E h \in RequestsAt("wh_issue_code") :
         /\ CanWrite(h)
         /\ \/ /\ WrittenAndCommitted(UpdateOrders(View(h), h.order_id,
                      [trade_no |-> DictGet(Body(h.cb), TradeNo, << >>),
                       payment_method |-> DictGet(Body(h.cb), PaymentType, << >>),
                       raw_payload |-> h.cb]))
               /\ rlog' = [rlog EXCEPT !.writes = @ + 1]
               /\ Answers(h, "1|OK")
            \/ PayRaises(h)
    /\ UNCHANGED <<sigVars, envVars>>

\* The number of an issued invoice.
InvoiceNo == << "I", "N", "V" >>

\* SELECT invoice_type ...; await issue_ecpay_invoice(...), which gives the
\* invoice's number, or None when the issuance fails or raises.
WebhookInvoice ==
    /\ \E h \in RequestsAt("wh_invoice") :
         LET order == OrderRow(View(h), h.order_id)
             wanted == config.ECPAY_INVOICE_ENABLED /\ order.invoice_type # ""
         IN  \/ /\ wanted
                /\ GoesOn(h, [h EXCEPT !.pc = "wh_update_order", !.invoice_number = InvoiceNo])
                /\ rlog' = [rlog EXCEPT !.invoices = @ + 1]
             \/ /\ GoesOn(h, [h EXCEPT !.pc = "wh_update_order"])
                /\ rlog' = rlog
    /\ UNCHANGED <<sigVars, envVars, dbVars>>

\* UPDATE orders SET payment_status = 'paid', ... of either handler.
MarkPaid(h, set, next) ==
    /\ CanWrite(h)
    /\ \/ /\ Written(UpdateOrders(View(h), h.order_id,
                 [f \in DOMAIN set \cup { "payment_status", "trade_no", "paid_at", "expires_at", "raw_payload" } |->
                     CASE f = "payment_status" -> "paid"
                       [] f = "trade_no" -> DictGet(Body(h.cb), TradeNo, << >>)
                       [] f = "paid_at" -> h.paid_at
                       [] f = "expires_at" -> h.expires_dt
                       [] f = "raw_payload" -> h.cb
                       [] OTHER -> set[f]]))
          /\ GoesOn(h, [h EXCEPT !.pc = next, !.intx = InTx])
          /\ rlog' = [rlog EXCEPT !.writes = @ + 1, !.paid_writes = @ + 1]
       \/ PayRaises(h)

\* INSERT INTO licenses ... ON CONFLICT (user_id) DO UPDATE / INSERT OR REPLACE
\* of either handler.
GrantLicense(h, next) ==
    /\ CanWrite(h)
    /\ \/ /\ Written(UpsertLicense(View(h), h.user_id, h.plan_type, h.expires_dt, << >>, FALSE))
          /\ GoesOn(h, [h EXCEPT !.pc = next, !.intx = InTx])
          /\ rlog' = [rlog EXCEPT !.writes = @ + 1, !.upserts = @ + 1]
       \/ PayRaises(h)

\* UPDATE user_auth SET is_subscribed = 1; commit; "1|OK", of either handler.
Subscribe(h) ==
    /\ CanWrite(h)
    /\ \/ /\ WrittenAndCommitted([View(h) EXCEPT !.user_auth[h.user_id].is_subscribed = TRUE])
          /\ Answers(h, "1|OK")
          /\ rlog' = [rlog EXCEPT !.writes = @ + 1]
       \/ PayRaises(h)

WebhookUpdateOrder ==
    /\ \E h \in RequestsAt("wh_update_order") :
         MarkPaid(h, [payment_method |-> DictGet(Body(h.cb), PaymentType, << >>),
                      invoice_number |-> IF h.invoice_number # << >> THEN h.invoice_number
                                         ELSE h.order_id],
                  "wh_upsert")
    /\ UNCHANGED <<sigVars, envVars>>

WebhookUpsertLicense ==
    /\ \E h \in RequestsAt("wh_upsert") : GrantLicense(h, "wh_user")
    /\ UNCHANGED <<sigVars, envVars>>

WebhookUpdateUser ==
    /\ \E h \in RequestsAt("wh_user") : Subscribe(h)
    /\ UNCHANGED <<sigVars, envVars>>

\* ecpay_return_url up to its first statement: the source address is logged
\* and not tested, then the MAC.
ReturnUrlEnters(cb, client_ip) ==
    LET h == [NewHandler("return_url", cb) EXCEPT !.client_ip = client_ip]
    IN  IF cb \notin VerifiedCallbacks THEN Answered(h, "0|FAIL")
        ELSE [h EXCEPT !.pc = "ru_select"]

\* A POST to /api/payment/return-url.
ReturnUrlArrives(limit, callbacks, ips) ==
    /\ rlog.started < limit
    /\ \E cb \in callbacks, client_ip \in ips :
         rq' = rq (+) SetToBag({ ReturnUrlEnters(cb, client_ip) })
    /\ rlog' = [rlog EXCEPT !.started = @ + 1, !.overlap = @ \/ InFlight]
    /\ UNCHANGED <<sigVars, envVars, dbVars>>

\* The SELECT of the order in ecpay_return_url, and the branching on it.
ReturnUrlSelect ==
    /\ \E h \in RequestsAt("ru_select") :
         LET order == OrderRow(View(h), h.order_id)
         IN  IF ~order.exists THEN Answers(h, "1|OK") /\ rlog' = rlog
             ELSE IF AlreadyProcessed(order, DictGet(Body(h.cb), TradeNo, << >>))
             THEN Answers(h, "1|OK") /\ rlog' = rlog
             ELSE IF DictGet(Body(h.cb), RtnCode, << >>) # RtnCodeSuccess
             THEN GoesOn(h, [h EXCEPT !.pc = "ru_mark_failed"]) /\ rlog' = rlog
             ELSE /\ GoesOn(h, [h EXCEPT !.pc = "ru_update_order", !.user_id = order.user_id,
                                         !.plan_type = GrantedPlan(order),
                                         !.paid_at = PaidAt(Body(h.cb)),
                                         !.expires_dt = ReturnUrlExpires(order, PaidAt(Body(h.cb)))])
                  /\ rlog' = [rlog EXCEPT !.pending_reads =
                                 IF order.payment_status = "pending" THEN @ + 1 ELSE @]
    /\ UNCHANGED <<sigVars, envVars, dbVars>>

\* UPDATE orders SET payment_status = 'failed', raw_payload = ...; commit; "1|OK"
ReturnUrlMarkFailed ==
    /\ \E h \in RequestsAt("ru_mark_failed") :
         /\ CanWrite(h)
         /\ \/ /\ WrittenAndCommitted(UpdateOrders(View(h), h.order_id,
                      [payment_status |-> "failed", raw_payload |-> h.cb]))
               /\ rlog' = [rlog EXCEPT !.writes = @ + 1]
               /\ Answers(h, "1|OK")
            \/ PayRaises(h)
    /\ UNCHANGED <<sigVars, envVars>>

ReturnUrlUpdateOrder ==
    /\ \E h \in RequestsAt("ru_update_order") :
         LET payment_type == DictGet(Body(h.cb), PaymentType, << >>)
         IN  MarkPaid(h, [payment_method |-> IF payment_type # << >> THEN payment_type
                                             ELSE << "e", "c", "p", "a", "y" >>],
                      "ru_upsert")
    /\ UNCHANGED <<sigVars, envVars>>

ReturnUrlUpsertLicense ==
    /\ \E h \in RequestsAt("ru_upsert") : GrantLicense(h, "ru_user")
    /\ UNCHANGED <<sigVars, envVars>>

ReturnUrlUpdateUser ==
    /\ \E h \in RequestsAt("ru_user") : Subscribe(h)
    /\ UNCHANGED <<sigVars, envVars>>

\* The gateway's answers to the refund request: a success, two refusals, and a
\* server error.
GatewayResponses ==
    { [status_code |-> 200, text |-> << "R", "t", "n", "C", "o", "d", "e", "=", "1", "&", "R", "t", "n", "M", "s", "g", "=", "O", "K" >>],
      [status_code |-> 200, text |-> << "R", "t", "n", "C", "o", "d", "e", "=", "1", "0", "2", "0", "0", "0", "5", "0", "&", "R", "t", "n", "M", "s", "g", "=", "N", "o" >>],
      [status_code |-> 200, text |-> << "R", "t", "n", "C", "o", "d", "e", "=", "2", "&", "R", "t", "n", "M", "s", "g", "=", "N", "o" >>],
      [status_code |-> 500, text |-> << >>] }

\* The parts of s between the separators sep.
RECURSIVE Split(_, _)
Split(str, sep) ==
    With(str, LAMBDA s :
        IF \A i \in 1..Len(s) : s[i] # sep THEN << s >>
        ELSE LET k == CHOOSE i \in 1..Len(s) : s[i] = sep /\ \A j \in 1..(i - 1) : s[j] # sep
             IN  << SubSeq(s, 1, k - 1) >> \o Split(SubSeq(s, k + 1, Len(s)), sep))

\* The gateway reported the refund as done: its answer's RtnCode is 1.
ReportsSuccess(response) ==
    /\ response.status_code = 200
    /\ \E i \in 1..Len(Split(response.text, "&")) :
         Split(response.text, "&")[i] = RtnCode \o << "=" >> \o RtnCodeSuccess

\* if "RtnCode=1" in response_text
RefundAccepted(response_text) == Contains(response_text, RtnCode \o << "=" >> \o RtnCodeSuccess)

\* A refund's answer: {"success": False, "error": ...} or {"success": True, ...}.
RefundFails(h, error) == Answers(h, error)

\* process_ecpay_refund is called.
RefundCalled(limit, orders, amounts) ==
    /\ rlog.started < limit
    /\ \E trade_no \in orders, refund_amount \in amounts :
         rq' = rq (+) SetToBag({ [NewHandler("refund", NoMessage) EXCEPT
                                     !.pc = "rf_select", !.order_id = trade_no,
                                     !.refund_amount = refund_amount] })
    /\ rlog' = [rlog EXCEPT !.started = @ + 1, !.overlap = @ \/ InFlight]
    /\ UNCHANGED <<sigVars, envVars, dbVars>>

\* if payment_status != "paid"
Refundable_Always(payment_status) == TRUE

Refundable(payment_status) == payment_status = "paid"

\* The amount that is never too large.
ExceedsOrder_Never(refund_amount, amount) == FALSE

\* refund_amount is not None and refund_amount > amount
ExceedsOrder(refund_amount, amount) == refund_amount # NoAmount /\ refund_amount > amount

\* SELECT amount, payment_status, invoice_number FROM orders, and the checks of
\* the order's status and of the amount.
RefundSelect ==
    /\ \E h \in RequestsAt("rf_select") :
         LET order == OrderRow(View(h), h.order_id)
         IN  IF ~order.exists THEN RefundFails(h, "order_not_found")
             ELSE IF ~Refundable(order.payment_status) THEN RefundFails(h, "status_not_refundable")
             ELSE IF ExceedsOrder(h.refund_amount, order.amount)
             THEN RefundFails(h, "amount_exceeds_order")
             ELSE GoesOn(h, [h EXCEPT !.pc = "rf_gateway",
                                      !.refund_amount = IF @ = NoAmount THEN order.amount ELSE @,
                                      !.invoice_number = order.invoice_number])
    /\ UNCHANGED <<sigVars, envVars, dbVars, rlog>>

\* await void_ecpay_invoice(...) when the order has an invoice (its failure is
\* logged), then the POST to the gateway: an answer, or a timeout or another
\* exception.
RefundGateway ==
    /\ \E h \in RequestsAt("rf_gateway") :
         \/ \E response \in GatewayResponses :
              /\ rlog' = [rlog EXCEPT !.gateway_calls = @ + 1,
                                      !.gateway_ok = IF ReportsSuccess(response) THEN @ + 1 ELSE @]
              /\ IF response.status_code # 200 THEN RefundFails(h, "http_error")
                 ELSE IF RefundAccepted(response.text)
                 THEN GoesOn(h, [h EXCEPT !.pc = "rf_update"])
                 ELSE RefundFails(h, "gateway_error")
         \/ /\ rlog' = [rlog EXCEPT !.gateway_calls = @ + 1]
            /\ RefundFails(h, "exception")
    /\ UNCHANGED <<sigVars, envVars, dbVars>>

\* UPDATE orders SET payment_status = 'refunded'; commit; success.  An
\* exception gives an error answer.
RefundUpdate ==
    /\ \E h \in RequestsAt("rf_update") :
         /\ CanWrite(h)
         /\ \/ /\ WrittenAndCommitted(UpdateOrders(View(h), h.order_id,
                      [payment_status |-> "refunded"]))
               /\ rlog' = [rlog EXCEPT !.writes = @ + 1]
               /\ Answers(h, "success")
            \/ /\ rlog.faults < MaxFaults
               /\ rlog' = [rlog EXCEPT !.faults = @ + 1]
               /\ RolledBack(h)
               /\ RefundFails(h, "exception")
    /\ UNCHANGED <<sigVars, envVars>>

\* The steps of the handlers after their start.
DeliveryStep ==
    \/ WebhookMarkFailed
    \/ WebhookSelect
    \/ WebhookIssueCode
    \/ WebhookInvoice
    \/ WebhookUpdateOrder
    \/ WebhookUpsertLicense
    \/ WebhookUpdateUser
    \/ ReturnUrlSelect
    \/ ReturnUrlMarkFailed
    \/ ReturnUrlUpdateOrder
    \/ ReturnUrlUpsertLicense
    \/ ReturnUrlUpdateUser

HandlerStep ==
    \/ DeliveryStep
    \/ RefundSelect
    \/ RefundGateway
    \/ RefundUpdate

\* Concurrent requests: the gateway delivers callbacks about the order, an
\* administrator asks for its full refund.
WebhookStart == WebhookArrives(MaxHandlers, OrderCallbacks, ECPAY_IP_WHITELIST)

ReturnUrlStart == ReturnUrlArrives(MaxHandlers, OrderCallbacks, ECPAY_IP_WHITELIST)

RefundStart == RefundCalled(MaxHandlers, { TheOrder }, { NoAmount })

NextPay ==
    \/ WebhookStart
    \/ ReturnUrlStart
    \/ RefundStart
    \/ HandlerStep

SpecPay == InitPay /\ [][NextPay]_vars

\* One request: any callback from any address, any refund.
WebhookOnce == WebhookArrives(1, Callbacks, ClientIps)

ReturnUrlOnce == ReturnUrlArrives(1, Callbacks, ClientIps)

RefundOnce ==
    RefundCalled(1, { TheOrder, UnknownOrder }, { NoAmount, OrderAmount, OrderAmount + 1 })

NextOne ==
    \/ WebhookOnce
    \/ ReturnUrlOnce
    \/ RefundOnce
    \/ HandlerStep

SpecOne == InitOne /\ [][NextOne]_vars

(***************************************************************************)
(* Claims on the callbacks and the refund                                  *)
(***************************************************************************)

\* The deliveries among the requests, and the callbacks that report a payment
\* of the order.
Deliveries == { h \in BagToSet(rq) : h.kind \in { "webhook", "return_url" } }

SuccessCallbacks ==
    { cb \in OrderCallbacks \cap VerifiedCallbacks : DictGet(Body(cb), RtnCode, << >>) = RtnCodeSuccess }

\* The same success callback cb was delivered twice to the pending order, both
\* deliveries were answered, nothing else was asked, no datastore error struck.
DeliveredTwice(cb) ==
    /\ rlog.order_was = "pending"
    /\ rlog.started = 2
    /\ rlog.faults = 0
    /\ ~InFlight
    /\ cb \in SuccessCallbacks
    /\ BagCardinality(rq) = 2
    /\ \A h \in BagToSet(rq) : h \in Deliveries /\ h.cb = cb

\* C2: the same verified success callback delivered twice in sequence makes
\* one change of the order to paid and one license upsert; the second
\* delivery is answered "1|OK" and writes nothing, so paid_at stays.
C2_IdempotentDelivery ==
    \A cb \in SuccessCallbacks :
        (DeliveredTwice(cb) /\ ~rlog.overlap)
        => /\ rlog.paid_writes = 1
           /\ rlog.upserts = 1
           /\ \A h \in BagToSet(rq) : h.result = "1|OK"
           /\ db.orders[TheOrder].payment_status = "paid"
           /\ db.orders[TheOrder].paid_at = PaidAt(Body(cb))

\* The changes of payment_status that the specification allows.
LegalTransitions ==
    { << "pending", "paid" >>, << "pending", "failed" >>, << "paid", "refunded" >> }

\* C3: every change of the order's payment_status is pending -> paid,
\* pending -> failed or paid -> refunded.
C3_LegalTransitions ==
    [][ db'.orders[TheOrder].payment_status # db.orders[TheOrder].payment_status
        => << db.orders[TheOrder].payment_status, db'.orders[TheOrder].payment_status >>
               \in LegalTransitions ]_vars

\* The callbacks whose MAC does not verify.
BadMac == { cb \in Callbacks : ~verify_ecpay_signature(Body(cb)) }

\* C4: a callback whose MAC does not verify is answered "0|FAIL" before any
\* statement of the handler, and the tables are left as they were.
C4_BadMacRejected ==
    [][ \A h \in BagToSet(rq') :
          (h \notin BagToSet(rq) /\ h.kind \in { "webhook", "return_url" } /\ h.cb \in BadMac)
          => /\ h.pc = "done"
             /\ h.result = "0|FAIL"
             /\ db' = db
             /\ tx' = tx
             /\ rlog'.writes = rlog.writes ]_vars

\* C4 (witness): the card payment's callback with its amount altered was
\* answered "0|FAIL", and the order is pending.
C4_Witness ==
    /\ \E h \in BagToSet(rq) :
         /\ h.cb = Tampered(CardPaid)
         /\ h.cb \in BadMac
         /\ h.result = "0|FAIL"
    /\ db.orders[TheOrder].payment_status = "pending"
    /\ db = PendingTables

\* C7: when no handler is running, an order that is paid has its license: the
\* user's license exists, with the order's tier and expiry.
C7_AllOrNothing ==
    (~InFlight /\ db.orders[TheOrder].payment_status = "paid")
    => LET order == db.orders[TheOrder]
           license == db.licenses[order.user_id]
       IN  license.exists /\ license.tier = order.plan_type /\ license.expires_at = order.expires_at

\* C8: two deliveries of the same verified success callback that both read the
\* order as pending upsert the license once and issue one invoice.
C8_ConcurrentDelivery ==
    \A cb \in SuccessCallbacks :
        (DeliveredTwice(cb) /\ rlog.pending_reads = 2)
        => rlog.paid_writes = 1 /\ rlog.upserts = 1 /\ rlog.invoices <= 1

\* Request h took a step.
Stepped(h) == CopiesIn(h, rq') < CopiesIn(h, rq)

AnsweredNow(h, result) == CopiesIn(Answered(h, result), rq') > CopiesIn(Answered(h, result), rq)

\* C9: a refund of an order that is not paid is rejected without a call of the
\* gateway and without a change of the tables; a refund that succeeds leaves
\* the order refunded; and of refunds asked for one after the other at most
\* one succeeds.
C9_RefundRejected ==
    /\ [][ /\ \A h \in RequestsAt("rf_select") :
                (Stepped(h) /\ OrderRow(View(h), h.order_id).payment_status # "paid")
                => /\ \E error \in { "order_not_found", "status_not_refundable" } : AnsweredNow(h, error)
                   /\ db' = db
                   /\ tx' = tx
                   /\ rlog'.gateway_calls = rlog.gateway_calls
           /\ \A h \in RequestsAt("rf_update") :
                (Stepped(h) /\ AnsweredNow(h, "success"))
                => db'.orders[h.order_id].payment_status = "refunded" ]_vars
    /\ []( ((\A h \in BagToSet(rq) : h.kind = "refund") /\ ~rlog.overlap)
           => \A h \in BagToSet(rq) : h.result = "success" => CopiesIn(h, rq) = 1 )

\* C9 (witness): the first refund succeeded, the second was rejected, and the
\* order is refunded.
C9_Witness ==
    /\ \E h \in BagToSet(rq) : h.kind = "refund" /\ h.result = "success"
    /\ \E h \in BagToSet(rq) : h.kind = "refund" /\ h.result = "status_not_refundable"
    /\ db.orders[TheOrder].payment_status = "refunded"
    /\ rlog.gateway_calls = 1

\* C10: the order is refunded, and a refund is answered with success, only
\* when the gateway reported a refund as done.
C10_RefundedOnlyOnSuccess ==
    /\ db.orders[TheOrder].payment_status = "refunded" => rlog.gateway_ok >= 1
    /\ (\E h \in BagToSet(rq) : h.kind = "refund" /\ h.result = "success") => rlog.gateway_ok >= 1

(***************************************************************************)
(* Claims on the redemption: atomicity, status changes, expiry             *)
(***************************************************************************)

\* Every redemption request has returned.
AllReturned == \A h \in BagToSet(rq) : h.pc = "done"

\* C11: when no request is running, an activation that is activated by a user
\* has that user's license from it (its tier, its channel as source) and the
\* user is subscribed; a request is told of success only then.
C11_AllOrNothing ==
    LET act == db.license_activations
        user == act.activated_by_user_id
    IN  /\ (AllReturned /\ act.status = "activated")
           => /\ user \in Users
              /\ db.licenses[user].exists
              /\ db.licenses[user].tier = act.plan_type
              /\ db.licenses[user].source = act.channel
              /\ db.user_auth[user].exists /\ db.user_auth[user].is_subscribed
        /\ (AllReturned /\ CopiesIn(Returned("success"), rq) > 0)
           => act.status = "activated" /\ db.orders[act.order_id].exists

\* The changes of an activation's status that the specification allows.
LegalStatusChanges == { << "pending", "activated" >>, << "pending", "expired" >> }

\* C12: every change of the activation's status is pending -> activated or
\* pending -> expired.
C12_StatusChanges ==
    [][ db'.license_activations.status # db.license_activations.status
        => << db.license_activations.status, db'.license_activations.status >>
               \in LegalStatusChanges ]_vars

\* Request h, at its SELECT of the activation, was taken to the expired branch.
FoundExpired(h) ==
    CopiesIn([h EXCEPT !.pc = "mark_expired"], rq') > CopiesIn([h EXCEPT !.pc = "mark_expired"], rq)

\* C13: a request that reads the pending activation of its token at the very
\* time link_expires_at finds the link expired; one that reads it one unit of
\* time earlier does not.
C13_ExpiryBoundary ==
    [][ \A h \in RequestsAt("select") :
          LET act == View(h).license_activations
          IN  (CopiesIn(h, rq') < CopiesIn(h, rq) /\ act.activation_token = h.token /\ act.status = "pending")
              => /\ now = act.link_expires_at => FoundExpired(h)
                 /\ now = act.link_expires_at - 1 => ~FoundExpired(h) ]_vars

(***************************************************************************)
(* Claims on the callbacks: the tier's expiry                              *)
(***************************************************************************)

\* The expiry the specification gives a tier, from the time of payment.
TierExpires(plan_type, paid_at) ==
    CASE plan_type = "lifetime" -> FarFuture
      [] plan_type = "two_year" -> paid_at + Days(TwoYearDays)
      [] plan_type = "yearly" -> paid_at + Days(YearDays)
      [] OTHER -> -1

\* C14: after a callback moved the order to paid (the handler has answered, no
\* datastore error struck), the order's plan is lifetime, two_year or yearly,
\* and the expiry of the order and of the user's license is the tier's.
C14_TierExpiry ==
    (~InFlight /\ rlog.paid_writes > 0 /\ rlog.faults = 0)
    => LET order == db.orders[TheOrder]
           license == db.licenses[order.user_id]
       IN  /\ order.plan_type \in { "lifetime", "two_year", "yearly" }
           /\ order.expires_at = TierExpires(order.plan_type, order.paid_at)
           /\ license.expires_at = TierExpires(order.plan_type, order.paid_at)


(***************************************************************************)
(* Order creation: create_payment_order, upgrade_to_lifetime               *)
(***************************************************************************)

\* The requests of the order-creation scenarios.
MaxCreates == 2

\* body.get("plan"): the plans of the price list, and one that is none.
PostedPlans == { "monthly", "yearly", "two_year", "lifetime", "weekly" }

\* body.get("amount"): absent, zero, and an amount of the client's choosing.
PostedAmounts == { NoAmount, 0, 1 }

\* body.get("name", "")
PostedNames == { << >>, << "A" >> }

\* trade_no: "RM" or "UPG", the user's suffix, the seconds, four hex digits of
\* a uuid.  Two requests can draw the same number.
CreateIds == OrderIds

UpgradeIds == { << "U", "1" >>, << "U", "2" >> }

\* if not amount: the amount of the plan; an amount that was posted is kept.
PlanAmount(plan) ==
    CASE plan = "monthly" -> 399
      [] plan = "yearly" -> 3990
      [] plan = "two_year" -> 9900
      [] OTHER -> 3990

ChargedAmount(plan, amount) ==
    IF amount = NoAmount \/ amount = 0 THEN PlanAmount(plan) ELSE amount

\* A request of create_payment_order or upgrade_to_lifetime before its first
\* statement, and its locals; total_amount is the TotalAmount of the form that
\* was returned, persisted says that the request's INSERT was committed.
NewCreate(kind, user, plan, amount) ==
    [pc |-> "new", kind |-> kind, user |-> user, plan |-> plan,
     amount |-> amount, trade_no |-> << >>, total_amount |-> NoAmount,
     persisted |-> FALSE, intx |-> FALSE, result |-> ""]

\* A request that was answered with the form, and one that was answered with a
\* status: its locals are gone.
CreateAnswered(h, result) == [h EXCEPT !.pc = "done", !.intx = FALSE, !.result = result]

CreateRefused(h, status) ==
    [NewCreate(h.kind, NoUser, "", NoAmount) EXCEPT !.pc = "done", !.result = status]

\* INSERT INTO orders (user_id, order_id, plan_type, amount, payment_status,
\* payment_method, invoice_type, ...) of create_payment_order, and the one of
\* upgrade_to_lifetime (is_upgrade in the metadata).
CreatedOrder(user, plan, amount) ==
    [PendingOrder EXCEPT !.user_id = user, !.plan_type = plan, !.amount = amount,
                         !.created_at = now]

UpgradeOrder(user, amount) ==
    [NoOrder EXCEPT !.exists = TRUE, !.user_id = user, !.plan_type = "lifetime",
                    !.amount = amount, !.payment_status = "pending", !.is_upgrade = TRUE,
                    !.created_at = now]

\* order_id TEXT UNIQUE NOT NULL
OrderIdTaken(tables, order_id) == tables.orders[order_id].exists

InsertOrder(tables, order_id, row) == [tables EXCEPT !.orders[order_id] = row]

\* The licenses user u1 can hold when asking for an order: none, a yearly one
\* with 100 or 500 days left or expired, a monthly one, a lifetime one.
HeldLicenses ==
    { NoLicense }
    \cup { [exists |-> TRUE, tier |-> "yearly", expires_at |-> FirstNow + left,
            status |-> "active", source |-> << >>] : left \in { Days(100), Days(500), -1 } }
    \cup { [exists |-> TRUE, tier |-> "monthly", expires_at |-> FirstNow + Days(MonthDays),
            status |-> "active", source |-> << >>],
           [exists |-> TRUE, tier |-> "lifetime", expires_at |-> FarFuture,
            status |-> "active", source |-> << >>] }

InitCreate ==
    /\ SigIdle
    /\ use_postgresql \in BOOLEAN
    /\ tz_offset = Hours(TaiwanOffsetHours)
    /\ now = FirstNow
    /\ config \in { [ENVIRONMENT |-> "production", ECPAY_INVOICE_ENABLED |-> FALSE,
                     ECPAY_HASH_KEY |-> set] : set \in BOOLEAN }
    /\ \E license \in HeldLicenses :
         db = [license_activations |-> IssuedActivation("yearly"),
               licenses |-> [u \in Users |-> IF u = "u1" THEN license ELSE NoLicense],
               user_auth |-> [u \in Users |->
                   [exists |-> TRUE, email |-> << "a", "@" >>, is_subscribed |-> license.exists /\ u = "u1"]],
               orders |-> [o \in CreateIds \cup UpgradeIds |-> NoOrder]]
    /\ tx = NoTx
    /\ rq = EmptyBag
    /\ rlog = [started |-> 0, faults |-> 0]

\* create_payment_order up to the INSERT: the login, the gateway's settings,
\* the plan, the name (the other fields are posted well-formed), the amount,
\* the order number.
CreateCalled ==
    /\ rlog.started < MaxCreates
    /\ \E user \in { "u1", NoUser }, plan \in PostedPlans, amount \in PostedAmounts,
          name \in PostedNames, trade_no \in CreateIds :
         LET h == NewCreate("create", user, plan, amount)
         IN  rq' = rq (+) SetToBag({
                 IF user = NoUser THEN CreateRefused(h, "401")
                 ELSE IF ~config.ECPAY_HASH_KEY THEN CreateRefused(h, "500")
                 ELSE IF ~validate_plan_type(plan) THEN CreateRefused(h, "400")
                 ELSE IF plan = "lifetime" THEN CreateRefused(h, "403")
                 ELSE IF Len(Strip(name)) = 0 \/ Len(name) > 100 THEN CreateRefused(h, "400")
                 ELSE [h EXCEPT !.pc = "cr_insert", !.amount = ChargedAmount(plan, amount),
                                !.trade_no = trade_no] })
    /\ rlog' = [rlog EXCEPT !.started = @ + 1]
    /\ UNCHANGED <<sigVars, envVars, dbVars>>

\* try: INSERT INTO orders; commit.  except: the failure is printed, the
\* transaction rolled back, and the handler goes on.
CreateInsert ==
    /\ \E h \in RequestsAt("cr_insert") :
         /\ CanWrite(h)
         /\ \/ /\ ~OrderIdTaken(View(h), h.trade_no)
               /\ WrittenAndCommitted(InsertOrder(View(h), h.trade_no,
                      CreatedOrder(h.user, h.plan, h.amount)))
               /\ rlog' = rlog
               /\ GoesOn(h, [h EXCEPT !.pc = "cr_payload", !.persisted = TRUE])
            \/ /\ OrderIdTaken(View(h), h.trade_no)
               /\ rlog' = rlog
               /\ RolledBack(h)
               /\ GoesOn(h, [h EXCEPT !.pc = "cr_payload"])
            \/ /\ rlog.faults < MaxFaults
               /\ rlog' = [rlog EXCEPT !.faults = @ + 1]
               /\ RolledBack(h)
               /\ GoesOn(h, [h EXCEPT !.pc = "cr_payload"])
    /\ UNCHANGED <<sigVars, envVars>>

\* ecpay_data with MerchantTradeNo = trade_no and TotalAmount = int(amount),
\* its CheckMacValue, and the form that posts it to the gateway; status 500 if
\* this raises.
CreatePayload ==
    /\ \E h \in RequestsAt("cr_payload") :
         \/ /\ rlog' = rlog
            /\ rq' = Replaced(rq, h, [CreateAnswered(h, "payload") EXCEPT !.total_amount = h.amount])
         \/ /\ rlog.faults < MaxFaults
            /\ rlog' = [rlog EXCEPT !.faults = @ + 1]
            /\ rq' = Replaced(rq, h, CreateRefused(h, "500"))
    /\ UNCHANGED <<sigVars, envVars, dbVars>>

\* (expires_dt - now).days
WholeDays(t) == t \div Days(1)

\* yearly_price, lifetime_price
yearly_price == 8280

lifetime_price == 9900

\* upgrade_amount = int(round(max(0, lifetime_price - remaining_value))), with
\* remaining_value = remaining_days / 365 * yearly_price, and yearly_price at
\* most when more than 730 days remain.
upgrade_amount(remaining_days) ==
    LET owed == lifetime_price * YearDays - remaining_days * yearly_price
    IN  IF remaining_days > TwoYearDays THEN lifetime_price - yearly_price
        ELSE IF owed <= 0 THEN 0
        ELSE (2 * owed + YearDays) \div (2 * YearDays)

\* upgrade_to_lifetime up to its SELECT.
UpgradeCalled ==
    /\ rlog.started < MaxCreates
    /\ \E user \in { "u1", NoUser } :
         LET h == NewCreate("upgrade", user, "lifetime", NoAmount)
         IN  rq' = rq (+) SetToBag({
                 IF user = NoUser THEN CreateRefused(h, "401")
                 ELSE [h EXCEPT !.pc = "up_select"] })
    /\ rlog' = [rlog EXCEPT !.started = @ + 1]
    /\ UNCHANGED <<sigVars, envVars, dbVars>>

\* SELECT tier, expires_at, status FROM licenses WHERE user_id = ?, the tier,
\* the days that remain and the amount to pay.
UpgradeSelect ==
    /\ \E h \in RequestsAt("up_select") :
         LET license == View(h).licenses[h.user]
             expires_dt == IF use_postgresql THEN ensure_timezone_aware(license.expires_at)
                           ELSE license.expires_at
             remaining_days == IF expires_dt > now THEN WholeDays(expires_dt - now) ELSE 0
             amount == upgrade_amount(remaining_days)
         IN  \/ /\ rlog' = rlog
                /\ IF ~license.exists THEN rq' = Replaced(rq, h, CreateRefused(h, "404"))
                   ELSE IF license.tier = "lifetime" THEN rq' = Replaced(rq, h, CreateRefused(h, "400"))
                   ELSE IF license.tier # "yearly" THEN rq' = Replaced(rq, h, CreateRefused(h, "400"))
                   ELSE IF amount = 0 THEN GoesOn(h, [h EXCEPT !.pc = "up_free", !.amount = 0])
                   ELSE \E trade_no \in UpgradeIds :
                            GoesOn(h, [h EXCEPT !.pc = "up_insert", !.amount = amount,
                                                !.trade_no = trade_no])
             \/ /\ rlog.faults < MaxFaults
                /\ rlog' = [rlog EXCEPT !.faults = @ + 1]
                /\ rq' = Replaced(rq, h, CreateRefused(h, "500"))
    /\ UNCHANGED <<sigVars, envVars, dbVars>>

\* Nothing is owed: UPDATE licenses SET tier = 'lifetime', expires_at = 2099-12-31,
\* status = 'active'; commit.
UpgradeFree ==
    /\ \E h \in RequestsAt("up_free") :
         /\ CanWrite(h)
         /\ \/ /\ WrittenAndCommitted([View(h) EXCEPT
                      !.licenses[h.user] = [@ EXCEPT !.tier = "lifetime", !.expires_at = FarFuture,
                                                     !.status = "active"]])
               /\ rlog' = rlog
               /\ rq' = Replaced(rq, h, CreateAnswered(h, "upgraded"))
            \/ /\ rlog.faults < MaxFaults
               /\ rlog' = [rlog EXCEPT !.faults = @ + 1]
               /\ RolledBack(h)
               /\ rq' = Replaced(rq, h, CreateRefused(h, "500"))
    /\ UNCHANGED <<sigVars, envVars>>

\* INSERT INTO orders (..., "lifetime", upgrade_amount, "pending", "ecpay",
\* metadata); commit; the form with TotalAmount = str(upgrade_amount).  Any
\* exception gives status 500.
UpgradeInsert ==
    /\ \E h \in RequestsAt("up_insert") :
         /\ CanWrite(h)
         /\ \/ /\ ~OrderIdTaken(View(h), h.trade_no)
               /\ WrittenAndCommitted(InsertOrder(View(h), h.trade_no, UpgradeOrder(h.user, h.amount)))
               /\ rlog' = rlog
               /\ rq' = Replaced(rq, h, [CreateAnswered(h, "payload") EXCEPT
                                            !.persisted = TRUE, !.total_amount = h.amount])
            \/ /\ OrderIdTaken(View(h), h.trade_no)
               /\ rlog' = rlog
               /\ RolledBack(h)
               /\ rq' = Replaced(rq, h, CreateRefused(h, "500"))
            \/ /\ rlog.faults < MaxFaults
               /\ rlog' = [rlog EXCEPT !.faults = @ + 1]
               /\ RolledBack(h)
               /\ rq' = Replaced(rq, h, CreateRefused(h, "500"))
    /\ UNCHANGED <<sigVars, envVars>>

NextCreate ==
    \/ CreateCalled
    \/ CreateInsert
    \/ CreatePayload
    \/ UpgradeCalled
    \/ UpgradeSelect
    \/ UpgradeFree
    \/ UpgradeInsert

SpecCreate == InitCreate /\ [][NextCreate]_vars

(***************************************************************************)
(* Claims on order creation                                                *)
(***************************************************************************)

\* The requests of create_payment_order that were answered with the form.
Payloads == { h \in BagToSet(rq) : h.kind = "create" /\ h.pc = "done" /\ h.result = "payload" }

\* C15: two requests of create_payment_order with the same plan get the same
\* TotalAmount in their forms and the same amount on their order rows, whatever
\* amounts the clients posted.
C15_AmountFromPlan ==
    \A h1, h2 \in Payloads :
        h1.plan = h2.plan =>
            /\ h1.total_amount = h2.total_amount
            /\ (h1.persisted /\ h2.persisted) =>
                   db.orders[h1.trade_no].amount = db.orders[h2.trade_no].amount

\* C16: create_payment_order answers with the form only if its INSERT of the
\* pending order was committed: every form that was returned names an order
\* row that this request persisted and that is pending.
C16_FailClosed ==
    \A h \in Payloads :
        /\ h.persisted
        /\ db.orders[h.trade_no].exists
        /\ db.orders[h.trade_no].payment_status = "pending"
        /\ db.orders[h.trade_no].plan_type = h.plan

\* C17: no request of create_payment_order or upgrade_to_lifetime, the two
\* order-creating paths open to any logged-in user, leaves an order row of
\* plan_type lifetime.
C17_NoLifetimeOrder ==
    \A o \in DOMAIN db.orders : db.orders[o].exists => db.orders[o].plan_type # "lifetime"

(***************************************************************************)
(* Claims on the flows of a payment                                        *)
(***************************************************************************)

\* The callback BankPaid of an offline method was delivered n times in
\* sequence to the pending order, once at least to ecpay_webhook, all
\* deliveries were answered and no datastore error struck.
OfflineDelivered(n) ==
    /\ rlog.order_was = "pending"
    /\ rlog.started = n
    /\ rlog.faults = 0
    /\ ~InFlight
    /\ ~rlog.overlap
    /\ BagCardinality(rq) = n
    /\ \A h \in BagToSet(rq) : h \in Deliveries /\ h.cb = BankPaid
    /\ \E h \in BagToSet(rq) : h.kind = "webhook"

\* C18: the first callback of an offline method stores what the gateway issued
\* and keeps the order pending, without a license; the next verified success
\* callback for the order leaves it paid, with the user's license active.
C18_OfflineFlow ==
    LET order == db.orders[TheOrder]
        license == db.licenses[order.user_id]
    IN  /\ OfflineDelivered(1)
           => /\ order.payment_status = "pending"
              /\ order.trade_no = DictGet(Body(BankPaid), TradeNo, << >>)
              /\ order.payment_method = DictGet(Body(BankPaid), PaymentType, << >>)
              /\ order.raw_payload = BankPaid
              /\ ~license.exists
        /\ OfflineDelivered(2)
           => /\ order.payment_status = "paid"
              /\ license.exists
              /\ license.status = "active"

\* The success callback cb was delivered once to the pending order, the
\* delivery was answered, nothing else was asked, no datastore error struck.
DeliveredOnce(cb) ==
    /\ rlog.order_was = "pending"
    /\ rlog.started = 1
    /\ rlog.faults = 0
    /\ ~InFlight
    /\ cb \in SuccessCallbacks
    /\ BagCardinality(rq) = 1
    /\ \A h \in BagToSet(rq) : h \in Deliveries /\ h.cb = cb

\* C19: one verified success callback for the pending yearly order leaves the
\* order paid and the user's license at tier yearly, active, expiring 365 days
\* after the order's paid_at, and is answered "1|OK".
C19_HappyPath ==
    \A cb \in SuccessCallbacks :
        DeliveredOnce(cb)
        => LET order == db.orders[TheOrder]
               license == db.licenses[order.user_id]
           IN  /\ order.plan_type = "yearly"
               /\ order.payment_status = "paid"
               /\ license.exists
               /\ license.tier = "yearly"
               /\ license.status = "active"
               /\ license.expires_at = order.paid_at + Days(YearDays)
               /\ \A h \in BagToSet(rq) : h.result = "1|OK"

\* The verified callbacks that report a refusal of the order's payment.
RefusedCallbacks ==
    { cb \in OrderCallbacks \cap VerifiedCallbacks : DictGet(Body(cb), RtnCode, << >>) # RtnCodeSuccess }

\* The tables as they were before the request, when all it did was to mark the
\* order failed and to store raw_payload.
BeforeMarkedFailed ==
    [db EXCEPT !.orders[TheOrder].payment_status = "pending",
               !.orders[TheOrder].raw_payload = NoMessage]

FoundActivated ==
    { h \in RequestsAt("select") :
          View(h).license_activations.activation_token = h.token
          /\ View(h).license_activations.status = "activated" }
    \cup RequestsAt("check_email") \cup RequestsAt("check_subscribed")

\* A request returned `result` in this step.
ReturnedNow(result) == CopiesIn(Returned(result), rq') > CopiesIn(Returned(result), rq)

\* The caller of h is logged in under the activation's email and holds an
\* active license.
SameAccountLicensed(h) ==
    /\ h.user # NoUser
    /\ View(h).user_auth[h.user].exists
    /\ Lower(View(h).user_auth[h.user].email) = Lower(View(h).license_activations.email)
    /\ View(h).licenses[h.user].exists
    /\ View(h).licenses[h.user].status = "active"

\* C21: a request for a token whose activation is activated changes no table;
\* it returns "already_activated" exactly when its caller is logged in under
\* the activation's email and holds an active license, and the answer of a
\* used link in every other case.
C21_AlreadyActivated ==
    [][ \A h \in FoundActivated :
            CopiesIn(h, rq') < CopiesIn(h, rq)
            => /\ db' = db
               /\ ReturnedNow("already_activated") => SameAccountLicensed(h)
               /\ ReturnedNow("already_used") => ~SameAccountLicensed(h)
               /\ \A result \in { "success", "expired", "login_redirect", "conflict", "error_500", "not_found" } :
                      ~ReturnedNow(result) ]_vars

\* The requests whose caller is not logged in.
Unauthenticated == { h \in BagToSet(rq) : h.pc # "done" /\ h.user = NoUser }

\* C22: a request without a logged-in caller changes no table, whatever its
\* token and whenever it comes, and when it returns from the datastore's
\* branches it is with the redirect to the login page.
C22_UnauthenticatedNoOp ==
    [][ \A h \in Unauthenticated :
            CopiesIn(h, rq') < CopiesIn(h, rq)
            => /\ db' = db
               /\ \A result \in { "success", "expired", "conflict", "already_activated" } :
                      ~ReturnedNow(result) ]_vars

(***************************************************************************)
(* Retention: cleanup_pending_orders, admin_delete_order, delete_order     *)
(***************************************************************************)

\* hours_ago = now - timedelta(hours=24)
RetentionHours == 24

\* created_at < hours_ago.  PostgreSQL compares two instants.  SQLite stores
\* CURRENT_TIMESTAMP as the text 'YYYY-MM-DD HH:MM:SS' and is given
\* hours_ago.timestamp(), a number: a text is never less than a number.
StoredBefore(created_at, hours_ago) == use_postgresql /\ created_at < hours_ago

\* WHERE payment_status = 'pending' AND created_at < ?
StalePending(tables, hours_ago) ==
    { o \in DOMAIN tables.orders :
          /\ tables.orders[o].exists
          /\ tables.orders[o].payment_status = "pending"
          /\ StoredBefore(tables.orders[o].created_at, hours_ago) }

\* DELETE FROM orders WHERE ...
DeleteOrders(tables, ids) ==
    [tables EXCEPT !.orders = [o \in DOMAIN @ |-> IF o \in ids THEN NoOrder ELSE @[o]]]

\* A request of the retention job or of a deletion before its first
\* statement, and its locals.
NewRetention(kind, order_id) ==
    [pc |-> "new", kind |-> kind, order_id |-> order_id, hours_ago |-> 0, intx |-> FALSE,
     result |-> ""]

Retained(h, result) == rq' = Replaced(rq, h, [NewRetention(h.kind, h.order_id) EXCEPT !.pc = "done", !.result = result])

\* The order of the payment scenarios, created more than 24 hours before the
\* first instant of the clock, or less.
OrderAges == { FirstNow - Hours(RetentionHours) - 1, FirstNow - Hours(RetentionHours) + 1 }

InitRetain ==
    /\ SigIdle
    /\ use_postgresql \in BOOLEAN
    /\ tz_offset = Hours(TaiwanOffsetHours)
    /\ now = FirstNow
    /\ config = DefaultConfig
    /\ \E tables \in { PendingTables, PaidTables, FailedTables, RefundedTables }, created_at \in OrderAges :
         db = [tables EXCEPT !.orders[TheOrder].created_at = created_at]
    /\ tx = NoTx
    /\ rq = EmptyBag
    /\ rlog = NothingDone(db)

\* cleanup_pending_orders is called: the CRON_SECRET, when one is set, must be
\* the one provided.
CleanupCalled ==
    /\ rlog.started < MaxHandlers
    /\ \E secret_ok \in BOOLEAN :
         LET h == NewRetention("cleanup", << >>)
         IN  rq' = rq (+) SetToBag({
                 IF ~secret_ok THEN [h EXCEPT !.pc = "done", !.result = "401"]
                 ELSE [h EXCEPT !.pc = "cl_select"] })
    /\ rlog' = [rlog EXCEPT !.started = @ + 1, !.overlap = @ \/ InFlight]
    /\ UNCHANGED <<sigVars, envVars, dbVars>>

\* hours_ago, and SELECT ... FROM orders WHERE payment_status = 'pending' AND
\* created_at < ?
CleanupSelect ==
    /\ \E h \in RequestsAt("cl_select") :
         LET hours_ago == now - Hours(RetentionHours)
         IN  \/ /\ rlog' = rlog
                /\ IF StalePending(View(h), hours_ago) = {}
                   THEN Retained(h, "nothing_to_clean")
                   ELSE GoesOn(h, [h EXCEPT !.pc = "cl_delete", !.hours_ago = hours_ago])
             \/ /\ rlog.faults < MaxFaults
                /\ rlog' = [rlog EXCEPT !.faults = @ + 1]
                /\ Retained(h, "500")
    /\ UNCHANGED <<sigVars, envVars, dbVars>>

\* DELETE FROM orders WHERE payment_status = 'pending' AND created_at < ?, the
\* INSERT INTO order_cleanup_logs, and the commit.  An exception of the INSERT
\* leaves the deletion in place on PostgreSQL.
CleanupDelete ==
    /\ \E h \in RequestsAt("cl_delete") :
         /\ CanWrite(h)
         /\ \/ /\ WrittenAndCommitted(DeleteOrders(View(h), StalePending(View(h), h.hours_ago)))
               /\ rlog' = [rlog EXCEPT !.writes = @ + 1]
               /\ Retained(h, "cleaned")
            \/ /\ rlog.faults < MaxFaults
               /\ rlog' = [rlog EXCEPT !.faults = @ + 1]
               /\ \/ RolledBack(h)
                  \/ /\ use_postgresql
                     /\ db' = DeleteOrders(db, StalePending(db, h.hours_ago))
                     /\ tx' = tx
               /\ Retained(h, "500")
    /\ UNCHANGED <<sigVars, envVars>>

\* admin_delete_order is called: get_admin_user lets administrators through.
AdminDeleteCalled ==
    /\ rlog.started < MaxHandlers
    /\ \E is_admin \in BOOLEAN, order_id \in { TheOrder, UnknownOrder } :
         LET h == NewRetention("admin_delete", order_id)
         IN  rq' = rq (+) SetToBag({
                 IF ~is_admin THEN [h EXCEPT !.pc = "done", !.result = "403"]
                 ELSE [h EXCEPT !.pc = "ad_select"] })
    /\ rlog' = [rlog EXCEPT !.started = @ + 1, !.overlap = @ \/ InFlight]
    /\ UNCHANGED <<sigVars, envVars, dbVars>>

\* SELECT user_id, order_id, payment_status, amount FROM orders WHERE order_id = ?
AdminDeleteSelect ==
    /\ \E h \in RequestsAt("ad_select") :
         \/ /\ rlog' = rlog
            /\ IF ~OrderRow(View(h), h.order_id).exists THEN Retained(h, "404")
               ELSE GoesOn(h, [h EXCEPT !.pc = "ad_delete"])
         \/ /\ rlog.faults < MaxFaults
            /\ rlog' = [rlog EXCEPT !.faults = @ + 1]
            /\ Retained(h, "500")
    /\ UNCHANGED <<sigVars, envVars, dbVars>>

\* DELETE FROM orders WHERE order_id = ?; commit; the order's status is not
\* looked at.
AdminDelete ==
    /\ \E h \in RequestsAt("ad_delete") :
         /\ CanWrite(h)
         /\ \/ /\ WrittenAndCommitted(DeleteOrders(View(h), { h.order_id }))
               /\ rlog' = [rlog EXCEPT !.writes = @ + 1]
               /\ Retained(h, IF OrderRow(View(h), h.order_id).exists THEN "deleted" ELSE "500")
            \/ /\ rlog.faults < MaxFaults
               /\ rlog' = [rlog EXCEPT !.faults = @ + 1]
               /\ RolledBack(h)
               /\ Retained(h, "500")
    /\ UNCHANGED <<sigVars, envVars>>

\* delete_order: the user's deletion is switched off, status 403.
UserDelete ==
    /\ rlog.started < MaxHandlers
    /\ \E order_id \in { TheOrder, UnknownOrder } :
         rq' = rq (+) SetToBag({ [NewRetention("delete_order", order_id) EXCEPT
                                     !.pc = "done", !.result = "403"] })
    /\ rlog' = [rlog EXCEPT !.started = @ + 1, !.overlap = @ \/ InFlight]
    /\ UNCHANGED <<sigVars, envVars, dbVars>>

NextRetain ==
    \/ Tick /\ UNCHANGED <<sigVars, use_postgresql, tz_offset, config, dbVars, redeemVars>>
    \/ CleanupCalled
    \/ CleanupSelect
    \/ CleanupDelete
    \/ AdminDeleteCalled
    \/ AdminDeleteSelect
    \/ AdminDelete
    \/ UserDelete

SpecRetain == InitRetain /\ [][NextRetain]_vars

\* C23: an order row disappears only in the DELETE of cleanup_pending_orders,
\* and only if it is pending and was created more than 24 hours ago; a paid,
\* failed or refunded order is never removed.
C23_OrdersKept ==
    [][ \A o \in DOMAIN db.orders :
            (db.orders[o].exists /\ ~db'.orders[o].exists)
            => /\ \E h \in RequestsAt("cl_delete") : CopiesIn(h, rq') < CopiesIn(h, rq)
               /\ db.orders[o].payment_status = "pending"
               /\ db.orders[o].created_at < now - Hours(RetentionHours) ]_vars

(***************************************************************************)
(* Further claims on the callbacks and the refund                          *)
(***************************************************************************)

\* The deliveries from an address outside the gateway's whitelist.
FromOutside == { h \in Deliveries : ~is_ecpay_ip(h.client_ip) }

\* C24: in production a notification from an address outside the whitelist
\* is answered "0|FAIL" by either handler before any statement and leaves the
\* tables as they were; in development a verified notification from such an
\* address is processed and acknowledged.
C24_SourceAddress ==
    \A h \in FromOutside :
        /\ config.ENVIRONMENT = "production"
           => /\ h.pc = "done"
              /\ h.result = "0|FAIL"
              /\ db \in { PendingTables, PaidTables, FailedTables, RefundedTables } \cup OtherPlanTables
        /\ (config.ENVIRONMENT = "development" /\ h.pc = "done" /\ h.cb \in VerifiedCallbacks
            /\ rlog.faults = 0)
           => h.result = "1|OK"

\* C25: a refund of a paid order for more than the order's amount is rejected
\* at once, before the invoice is voided or the gateway called, and the order
\* stays paid; a refund with no amount goes on with the order's full amount,
\* and no refund is reported done for more than the order's amount.
C25_RefundAmount ==
    /\ [][ \A h \in RequestsAt("rf_select") :
               LET order == OrderRow(View(h), h.order_id)
                   full == [h EXCEPT !.pc = "rf_gateway", !.refund_amount = order.amount,
                                     !.invoice_number = order.invoice_number]
               IN  (Stepped(h) /\ order.exists /\ order.payment_status = "paid")
                   => /\ (h.refund_amount # NoAmount /\ h.refund_amount > order.amount)
                         => /\ AnsweredNow(h, "amount_exceeds_order")
                            /\ db' = db
                            /\ rlog'.gateway_calls = rlog.gateway_calls
                      /\ h.refund_amount = NoAmount
                         => CopiesIn(full, rq') > CopiesIn(full, rq) ]_vars
    /\ [](\A h \in BagToSet(rq) :
              (h.kind = "refund" /\ h.result = "success")
              => h.refund_amount # NoAmount /\ h.refund_amount <= db.orders[h.order_id].amount)

\* A refund of the paid order for more than its amount was rejected; the
\* gateway was not called and the order is paid.
C25_Witness ==
    /\ \E h \in BagToSet(rq) :
         /\ h.kind = "refund"
         /\ h.refund_amount > db.orders[TheOrder].amount
         /\ h.result = "amount_exceeds_order"
    /\ rlog.gateway_calls = 0
    /\ db.orders[TheOrder].payment_status = "paid"

(***************************************************************************)
(* Claims on the entitlement a license carries                             *)
(***************************************************************************)

\* The requests that have just read a pending, unexpired link as a logged-in
\* user and go on to redeem it.
Redeeming(h) ==
    LET act == View(h).license_activations
    IN  /\ h.pc = "select"
        /\ Stepped(h)
        /\ \E g \in BagToSet(rq') : g.pc = "cond_update" /\ CopiesIn(g, rq') > CopiesIn(g, rq)

\* C26: the redemption of a trial gives a license that expires exactly 7 days
\* after the moment of the redemption, whenever within the link's window that
\* is; the redemption of another plan gives a license that expires at the
\* license_expires_at computed when the link was issued.
C26_LicenseExpiry ==
    /\ [][ \A h \in BagToSet(rq) :
               Redeeming(h)
               => LET act == View(h).license_activations
                      expire_dt == IF act.plan_type = "trial" THEN now + Days(TrialDays)
                                   ELSE act.license_expires_at
                      h2 == [h EXCEPT !.pc = "cond_update", !.license_expire_dt = expire_dt]
                  IN  CopiesIn(h2, rq') > CopiesIn(h2, rq) ]_vars
    /\ [](LET act == db.license_activations
          IN  \A u \in Users :
                  (act.status = "activated" /\ act.activated_by_user_id = u /\ db.licenses[u].exists)
                  => IF act.plan_type = "trial"
                     THEN /\ db.licenses[u].expires_at <= act.activated_at + Days(TrialDays)
                          /\ db.licenses[u].expires_at >= FirstNow + Days(TrialDays)
                     ELSE db.licenses[u].expires_at = act.license_expires_at)

(***************************************************************************)
(* The two notification handlers, side by side                             *)
(***************************************************************************)

\* What a delivery leaves: the order's status, the license of the order's
\* user, and the acknowledgement.
Outcome(h) ==
    [payment_status |-> db.orders[TheOrder].payment_status,
     tier |-> db.licenses["u1"].tier,
     expires_at |-> db.licenses["u1"].expires_at,
     ack |-> h.result]

NoOutcome == [payment_status |-> "", tier |-> "", expires_at |-> 0, ack |-> ""]

\* One delivery to either handler, with the tables and the first outcome kept
\* for the comparison.
InitTwin ==
    /\ SigIdle
    /\ use_postgresql \in BOOLEAN
    /\ tz_offset = Hours(TaiwanOffsetHours)
    /\ now = FirstNow
    /\ config \in [ENVIRONMENT : { "production", "development" }, ECPAY_INVOICE_ENABLED : BOOLEAN]
    /\ db \in { PendingTables, PaidTables, FailedTables, RefundedTables } \cup OtherPlanTables
    /\ tx = NoTx
    /\ rq = EmptyBag
    /\ rlog = NothingDone(db) @@ [first |-> NoOutcome, tables |-> db]

\* The same callback, from the same address, is delivered to the other handler
\* with the tables as they were before the first delivery.
Redeliver ==
    /\ rlog.first = NoOutcome
    /\ \E h \in Deliveries :
         /\ h.pc = "done"
         /\ rq' = SetToBag({ IF h.kind = "webhook" THEN ReturnUrlEnters(h.cb, h.client_ip)
                             ELSE WebhookEnters(h.cb, h.client_ip) })
         /\ rlog' = [rlog EXCEPT !.first = Outcome(h)]
    /\ db' = rlog.tables
    /\ tx' = NoTx
    /\ UNCHANGED <<sigVars, envVars>>

NextTwin ==
    \/ WebhookOnce
    \/ ReturnUrlOnce
    \/ RefundOnce
    \/ HandlerStep
    \/ Redeliver

SpecTwin == InitTwin /\ [][NextTwin]_vars

\* The second delivery has been answered, the callback's MAC verifies, it came
\* from the gateway's address, and no datastore error struck either delivery.
Compared(h) ==
    /\ h \in Deliveries
    /\ h.pc = "done"
    /\ is_ecpay_ip(h.client_ip)
    /\ rlog.first # NoOutcome
    /\ h.cb \in VerifiedCallbacks
    /\ rlog.faults = 0

\* C27: for the same stored order and the same verified callback, the two
\* notification handlers leave the same payment_status, the same license tier
\* and expires_at, and give the same acknowledgement.
C27_HandlersEquivalent ==
    \A h \in BagToSet(rq) : Compared(h) => Outcome(h) = rlog.first

(***************************************************************************)
(* A license holder redeems a link or pays an order                        *)
(***************************************************************************)

\* The activation as a redemption by u1 left it.
RedeemedActivation(plan) ==
    [IssuedActivation(plan) EXCEPT !.status = "activated", !.activated_at = Days(1),
                                   !.activated_by_user_id = "u1"]

\* User u1 holds a license (or none) and has a pending yearly order; an
\* activation was issued for u1's email and is pending or redeemed; the time is
\* inside or past the link's window.
InitHeld ==
    /\ SigIdle
    /\ use_postgresql \in BOOLEAN
    /\ tz_offset = Hours(TaiwanOffsetHours)
    /\ now \in { FirstNow, LastNow }
    /\ config = [ENVIRONMENT |-> "production", ECPAY_INVOICE_ENABLED |-> FALSE]
    /\ \E license \in HeldLicenses, plan \in PlanTypes :
         \E activation \in { IssuedActivation(plan), RedeemedActivation(plan) } :
             db = [PendingTables EXCEPT !.license_activations = activation,
                                        !.licenses["u1"] = license,
                                        !.user_auth["u1"].is_subscribed = license.exists]
    /\ tx = NoTx
    /\ rq = EmptyBag
    /\ rlog = NothingDone(db) @@ [hits |-> 0]

\* One request: a redemption, or a callback.
RedeemOnce == RedeemCalled(1)

NextHeld ==
    \/ RedeemOnce
    \/ RedeemSelect
    \/ RedeemCheckEmail
    \/ RedeemCheckSubscribed
    \/ RedeemMarkExpired
    \/ RedeemCondUpdate
    \/ RedeemUpsertLicense
    \/ RedeemUserSelect
    \/ RedeemUserWrite
    \/ RedeemOrderInsert
    \/ RedeemCommit
    \/ WebhookOnce
    \/ ReturnUrlOnce
    \/ DeliveryStep

SpecHeld == InitHeld /\ [][NextHeld]_vars

\* C28: no step lets a license expire earlier than it did: the license upsert
\* of a redemption or of a paid order never shortens what a user holds.
C28_NeverShortened ==
    [][ \A u \in Users :
            db.licenses[u].exists
            => /\ db'.licenses[u].exists
               /\ db'.licenses[u].expires_at >= db.licenses[u].expires_at ]_vars

(***************************************************************************)
(* Claims on concurrent refunds and on the amount of a callback            *)
(***************************************************************************)

\* The refund requests that have read the order as paid and have not written
\* yet, and whether there are two of them.
RefundsInFlight ==
    { h \in BagToSet(rq) : h.kind = "refund" /\ h.pc \in { "rf_gateway", "rf_update" } }

TwoRefundsInFlight ==
    \/ Cardinality(RefundsInFlight) >= 2
    \/ \E h \in RefundsInFlight : CopiesIn(h, rq) >= 2

\* C29: when two refund requests of the paid order have both read its status
\* before either wrote, the gateway's refund endpoint is called at most once
\* for the order, and at most one request reports success.
C29_ConcurrentRefunds ==
    /\ TwoRefundsInFlight => rlog.gateway_calls <= 1
    /\ \A h \in BagToSet(rq) : (h.kind = "refund" /\ h.result = "success") => CopiesIn(h, rq) = 1

\* The amounts an order is stored with: the amount the gateway's callbacks
\* report, and another one.
StoredAmounts == { OrderAmount, OrderAmount + 1 }

\* One delivery about a pending order of either amount.
InitAmount ==
    /\ SigIdle
    /\ use_postgresql \in BOOLEAN
    /\ tz_offset = Hours(TaiwanOffsetHours)
    /\ now = FirstNow
    /\ config \in [ENVIRONMENT : { "production", "development" }, ECPAY_INVOICE_ENABLED : BOOLEAN]
    /\ \E amount \in StoredAmounts :
         db = [PendingTables EXCEPT !.orders[TheOrder].amount = amount]
    /\ tx = NoTx
    /\ rq = EmptyBag
    /\ rlog = NothingDone(db)

NextAmount ==
    \/ WebhookOnce
    \/ ReturnUrlOnce
    \/ DeliveryStep

SpecAmount == InitAmount /\ [][NextAmount]_vars

\* The delivery that takes this step reports the amount the order is stored
\* with.
AmountsAgree ==
    \E h \in Deliveries :
        /\ Stepped(h)
        /\ DictGet(Body(h.cb), TradeAmt, << >>) = FormatNat(db.orders[TheOrder].amount)

\* C30: the order becomes paid, and the license of its user is written, only
\* in a step of a delivery whose callback reports the amount stored on the
\* order.
C30_AmountChecked ==
    [][ /\ (db.orders[TheOrder].payment_status # "paid" /\ db'.orders[TheOrder].payment_status = "paid")
           => AmountsAgree
        /\ db'.licenses # db.licenses => AmountsAgree ]_vars

====
